---- MODULE Spec2Model ----
(***************************************************************************)
(* A model of the schema/field deserialization engine: the class registry  *)
(* (class_registry.py), the field kinds (fields.py), the validator chain   *)
(* (validate.py) and the Schema type and instance (schema/schema.py).      *)
(*                                                                         *)
(* Python objects live in a heap: field objects, schema instances and      *)
(* schema classes are sequences indexed by object identity.  Python values *)
(* are tagged records.  A raised exception is carried in the result of the *)
(* operator that models the raising function: exc is the class of the      *)
(* exception and detail its message.                                       *)
(***************************************************************************)
EXTENDS Integers, Sequences, FiniteSets, TLC

VARIABLES
    registry,   \* class_registry._registry: key -> sequence of class ids
    classes,    \* the schema classes defined so far (class objects)
    fields,     \* the field objects
    schemas,    \* the schema instances
    last,       \* the last call made and its outcome
    threads     \* the calls of register and get_class in progress, one per thread

vars == <<registry, classes, fields, schemas, last, threads>>

(***************************************************************************)
(* Bounds of the model.                                                    *)
(***************************************************************************)
MaxFieldObjs == 4      \* field objects alive or dead in the heap
MaxSchemas == 3        \* schema instances alive or dead in the heap
MaxListLen == 3        \* length of the sequences given to a List field
MaxClasses == 3        \* class objects of the schema specification, Schema included
MaxRegistered == 4     \* class objects of the registry specification, Schema included

(***************************************************************************)
(* Python values.                                                          *)
(***************************************************************************)
Missing == [t |-> "missing"]                  \* utils.missing
None == [t |-> "none"]
VStr(s) == [t |-> "str", s |-> s]
VInt(n) == [t |-> "int", n |-> n]
VFloat(n) == [t |-> "float", n |-> n]          \* a float of integral value n
VBool(b) == [t |-> "bool", b |-> b]
Huge == [t |-> "hugeint"]                     \* an int beyond the range of a float, e.g. 10**400
ListV(s) == [t |-> "list", items |-> s]
MapV(keys, vals) == [t |-> "map", k |-> keys, vals |-> vals]   \* a dict: keys in insertion order
Func(r) == [t |-> "callable", r |-> r]        \* a zero-argument callable returning r

EmptyMap == MapV(<<>>, <<>>)

\* bool(value)
Truthy(v) ==
    CASE v.t = "missing" -> FALSE
      [] v.t = "none" -> FALSE
      [] v.t = "str" -> v.s # ""
      [] v.t = "int" -> v.n # 0
      [] v.t = "float" -> v.n # 0
      [] v.t = "bool" -> v.b
      [] v.t = "hugeint" -> TRUE
      [] v.t = "list" -> Len(v.items) > 0
      [] v.t = "map" -> Len(v.k) > 0
      [] v.t = "callable" -> TRUE

\* (value is missing_) or (value == '') or (value is None)
IsMissingLike(v) == v = Missing \/ v = VStr("") \/ v = None

\* dict.get(key, default)
RECURSIVE KeyIndex(_, _, _)
KeyIndex(keys, key, i) ==
    IF i > Len(keys) THEN 0
    ELSE IF keys[i] = key THEN i ELSE KeyIndex(keys, key, i + 1)

MapGet(m, key, default) ==
    LET i == KeyIndex(m.k, key, 1) IN IF i = 0 THEN default ELSE m.vals[i]

\* dct[key] = value
MapSet(m, key, value) ==
    LET i == KeyIndex(m.k, key, 1) IN
    IF i = 0 THEN MapV(Append(m.k, key), Append(m.vals, value))
    ELSE MapV(m.k, [m.vals EXCEPT ![i] = value])

(***************************************************************************)
(* Text: str.upper() and int(str).                                         *)
(***************************************************************************)
Lower == "abcdefghijklmnopqrstuvwxyz"
UpperAlphabet == "ABCDEFGHIJKLMNOPQRSTUVWXYZ"
Digits == "0123456789"

RECURSIVE IndexIn(_, _, _)
IndexIn(alphabet, c, i) ==
    IF i > Len(alphabet) THEN 0
    ELSE IF SubSeq(alphabet, i, i) = c THEN i ELSE IndexIn(alphabet, c, i + 1)

RECURSIVE Upper(_)
Upper(s) ==
    IF s = "" THEN ""
    ELSE LET c == SubSeq(s, 1, 1)
             i == IndexIn(Lower, c, 1)
         IN (IF i = 0 THEN c ELSE SubSeq(UpperAlphabet, i, i)) \o Upper(SubSeq(s, 2, Len(s)))

RECURSIVE AllDigits(_)
AllDigits(s) ==
    s = "" \/ (IndexIn(Digits, SubSeq(s, 1, 1), 1) # 0 /\ AllDigits(SubSeq(s, 2, Len(s))))

RECURSIVE DigitsValue(_, _)
DigitsValue(s, acc) ==
    IF s = "" THEN acc
    ELSE DigitsValue(SubSeq(s, 2, Len(s)), 10 * acc + IndexIn(Digits, SubSeq(s, 1, 1), 1) - 1)

\* int(s) for a str s: an optional sign and decimal digits; anything else is a ValueError
IsIntText(s) ==
    LET body == IF s # "" /\ SubSeq(s, 1, 1) \in {"-", "+"} THEN SubSeq(s, 2, Len(s)) ELSE s
    IN body # "" /\ AllDigits(body)

ParseInt(s) ==
    IF SubSeq(s, 1, 1) = "-" THEN 0 - DigitsValue(SubSeq(s, 2, Len(s)), 0)
    ELSE IF SubSeq(s, 1, 1) = "+" THEN DigitsValue(SubSeq(s, 2, Len(s)), 0)
    ELSE DigitsValue(s, 0)

\* sub in s
Contains(s, sub) ==
    \E i \in 1..(Len(s) - Len(sub) + 1) : SubSeq(s, i, i + Len(sub) - 1) = sub

\* f'{name}' of a field name; an unbound field has name None
FmtName(name) == IF name = "" THEN "None" ELSE name

\* a == b on Python values: bool, int and float compare by number
IsNumber(v) == v.t \in {"int", "float", "bool"}
NumberOf(v) == IF v.t = "bool" THEN (IF v.b THEN 1 ELSE 0) ELSE v.n
PyEq(a, b) ==
    IF IsNumber(a) /\ IsNumber(b) THEN NumberOf(a) = NumberOf(b)
    ELSE IF IsNumber(a) \/ IsNumber(b) THEN FALSE
    ELSE a = b

\* utils.is_collection: iterable, not a string, not a Mapping
is_collection(v) == v.t = "list"

(***************************************************************************)
(* The heap and the outcome of a call.  h is the program state threaded    *)
(* through a call: the registry, the class objects, the field objects, the *)
(* schema instances, and log, the calls made so far by the running         *)
(* operation (log is an observation of the run, not program state).        *)
(***************************************************************************)
NoRef == [to |-> "none", id |-> 0]            \* None as a parent or root
SchemaRef(sid) == [to |-> "schema", id |-> sid]
FieldRef(fid) == [to |-> "field", id |-> fid]

Ev(e, id, s) == [e |-> e, id |-> id, s |-> s]
Log(h, e, id, s) == [h EXCEPT !.log = Append(@, Ev(e, id, s))]

Ret(h, val) == [h |-> h, exc |-> "none", detail |-> "", val |-> val]
Raise(h, exc, detail) == [h |-> h, exc |-> exc, detail |-> detail, val |-> None]

\* the exception classes of rest_framework.exceptions used by the code:
\* ParseError and ValidationError derive from APIException, and neither
\* derives from the other
IsValidationError(exc) == exc = "ValidationError"

(***************************************************************************)
(* Field objects.  name = "" stands for None; schema = 0 and inner = 0     *)
(* stand for None.  resolved counts the successful resolutions of a Nested *)
(* field's reference (an observation, not an attribute of the object).     *)
(***************************************************************************)
NoNested == [form |-> "none", name |-> "", ref |-> 0, many |-> FALSE]
NestedByName(n) == [form |-> "name", name |-> n, ref |-> 0, many |-> FALSE]
NestedByType(cid) == [form |-> "type", name |-> "", ref |-> cid, many |-> FALSE]
NestedByInstance(sid) == [form |-> "instance", name |-> "", ref |-> sid, many |-> FALSE]
\* a factory: lambda: C(many=m) for the class object cid
NestedByFactory(cid, m) == [form |-> "factory", name |-> "", ref |-> cid, many |-> m]

\* validators: a validate.OneOf instance, or a plain callable lambda v, name: v != x
OneOf(choices) == [cls |-> "OneOf", arg |-> choices]
NotEqual(x) == [cls |-> "callable", arg |-> <<x>>]
\* a plain callable that returns a transformed value: lambda v, name: [v]
Wrap == [cls |-> "wrap", arg |-> <<>>]

\* Field.__init__ (and the __init__ of Nested, List and String)
NewField(kind, required, default, validators) ==
    [kind |-> kind, required |-> required, load_default |-> default,
     validators |-> validators, name |-> "", parent |-> NoRef, root |-> NoRef,
     upper_case |-> FALSE, nested |-> NoNested, many |-> FALSE, schema |-> 0,
     inner |-> 0, resolved |-> 0]

\* allocate a field object
Alloc(h, f) == [h EXCEPT !.fields = Append(@, f)]
NewId(h) == Len(h.fields) + 1

(***************************************************************************)
(* Field._bind_to_schema and List._bind_to_schema.  An intermediate result *)
(* of a function is handed on as the parameter of the operator that models *)
(* the rest of the function.                                               *)
(***************************************************************************)
RefSet(r) == r.to # "none"       \* bool(obj) of a parent or root

\* a variant that assigns name, parent and root on every call
BoundFieldOverwrite(h, f, field_name, owner) ==
    [f EXCEPT !.parent = owner, !.name = field_name,
              !.root = IF owner.to = "field" THEN h.fields[owner.id].root ELSE owner]

\* Field._bind_to_schema: the attributes of the field after the call
BoundField(h, f, field_name, owner) ==
    LET parent == IF RefSet(f.parent) THEN f.parent ELSE owner
        name == IF f.name # "" THEN f.name ELSE field_name
        root == IF RefSet(f.root) THEN f.root
                ELSE IF parent.to = "field" THEN h.fields[parent.id].root
                ELSE parent
    IN [f EXCEPT !.parent = parent, !.name = name, !.root = root]

RECURSIVE BindToSchema(_, _, _, _)

\* a variant that binds the inner field itself instead of a copy of it
BindInnerInPlace(h, fid, field_name) ==
    BindToSchema(h, h.fields[fid].inner, field_name, FieldRef(fid))

\* List._bind_to_schema after super(): self.inner becomes a copy of the inner
\* field (Field.__deepcopy__ is copy.copy: a new object with the same
\* attributes), and the copy is bound to the list field
BindInner(h, fid, field_name) ==
    BindToSchema([Alloc(h, h.fields[h.fields[fid].inner]) EXCEPT !.fields[fid].inner = NewId(h)],
                 NewId(h), field_name, FieldRef(fid))

BindToSchema(h, fid, field_name, owner) ==
    IF h.fields[fid].kind = "List"
    THEN BindInner([h EXCEPT !.fields[fid] = BoundField(h, @, field_name, owner)], fid, field_name)
    ELSE [h EXCEPT !.fields[fid] = BoundField(h, @, field_name, owner)]

(***************************************************************************)
(* validate.And.__call__ over the field's validators.                      *)
(***************************************************************************)
\* validator(value, name): "raise" (a Validator raising ValidationError),
\* "false" (a plain callable returning False) or "pass"
ValidatorOutcome(validator, value) ==
    IF validator.cls = "OneOf"
    THEN IF \E i \in 1..Len(validator.arg) : PyEq(validator.arg[i], value)
         THEN "pass" ELSE "raise"
    ELSE IF validator.cls = "wrap" THEN "pass"
    ELSE IF PyEq(validator.arg[1], value) THEN "false" ELSE "pass"

\* r, the value validator(value, name) returns when it does not raise
ValidatorReturn(validator, value) ==
    CASE validator.cls = "OneOf" -> value
      [] validator.cls = "wrap" -> ListV(<<value>>)
      [] OTHER -> VBool(~PyEq(validator.arg[1], value))

\* OneOf._format_error; choices_text is ", ".join(str(choice)), kept symbolic
OneOfMessage(name) == "Field " \o FmtName(name) \o " must be one of: <choices>"

\* a variant that goes on after a failing validator and fails only for the
\* last one of the chain
RECURSIVE AndCallOn(_, _, _, _)
AndCallOn(h, fid, value, i) ==
    LET f == h.fields[fid] IN
    IF i > Len(f.validators) THEN Ret(h, value)
    ELSE LET h1 == Log(h, "validator", fid, ToString(i))
             out == ValidatorOutcome(f.validators[i], value)
         IN IF out = "raise" /\ i = Len(f.validators)
            THEN Raise(h1, "ValidationError", OneOfMessage(f.name))
            ELSE IF out = "false" /\ i = Len(f.validators)
            THEN Raise(h1, "ValidationError", "Invalid arguments")
            ELSE AndCallOn(h1, fid, value, i + 1)

RECURSIVE AndCall(_, _, _, _)
AndCall(h, fid, value, i) ==
    LET f == h.fields[fid] IN
    IF i > Len(f.validators) THEN Ret(h, value)
    ELSE LET h1 == Log(h, "validator", fid, ToString(i))
             out == ValidatorOutcome(f.validators[i], value)
         IN IF out = "raise" THEN Raise(h1, "ValidationError", OneOfMessage(f.name))
            ELSE IF out = "false" THEN Raise(h1, "ValidationError", "Invalid arguments")
            ELSE AndCall(h1, fid, value, i + 1)

(***************************************************************************)
(* Field._validate_missing: the exception it raises, if any.               *)
(***************************************************************************)
\* a variant that does not take the empty string for a missing value
ValidateMissingNoEmpty(f, value) ==
    IF (value = Missing \/ value = None) /\ f.required
    THEN IF Truthy(f.load_default) THEN "none" ELSE "ParseError"
    ELSE "none"

ValidateMissing(f, value) ==
    IF IsMissingLike(value) /\ f.required
    THEN IF Truthy(f.load_default) THEN "none" ELSE "ParseError"
    ELSE "none"

RequiredMessage(name) == "Field " \o FmtName(name) \o " is required"

(***************************************************************************)
(* The _deserialize of the scalar kinds.                                   *)
(***************************************************************************)
\* String._deserialize (str input; bytes are not modelled)
StringDeserialize(h, f, value) ==
    IF value.t # "str"
    THEN Raise(h, "ValidationError", "Except field " \o FmtName(f.name) \o " is a string")
    ELSE Ret(h, IF f.upper_case THEN VStr(Upper(value.s)) ELSE value)

\* Float._validated with num_type = float
FloatValidated(h, f, value) ==
    CASE value.t \in {"int", "float"} -> Ret(h, VFloat(value.n))
      [] value.t = "bool" -> Ret(h, VFloat(NumberOf(value)))
      [] value.t = "str" /\ IsIntText(value.s) -> Ret(h, VFloat(ParseInt(value.s)))
      [] value.t = "hugeint" -> Raise(h, "APIException", "Field " \o FmtName(f.name) \o " is too large")
      [] OTHER -> Raise(h, "ValidationError", "Except field " \o FmtName(f.name) \o " is a number")

\* Integer._validated
IntegerValidated(h, f, value) ==
    CASE value.t = "int" -> Ret(h, value)
      [] value.t = "hugeint" -> Ret(h, value)
      [] value.t = "bool" -> Ret(h, VInt(NumberOf(value)))
      [] value.t = "str" ->
            IF IsIntText(value.s) THEN Ret(h, VInt(ParseInt(value.s)))
            ELSE Raise(h, "ValidationError", "Except field " \o FmtName(f.name) \o " is an integer")
      [] OTHER -> Raise(h, "ValidationError", "Field " \o FmtName(f.name) \o " must be a valid integer")

\* Boolean._deserialize; an unhashable value makes `value in self.truthy` raise
\* the builtin TypeError
Truthy_ == <<VStr("T"), VStr("TRUE"), VStr("Y"), VStr("YES"), VStr("1"), VInt(1)>>
Falsy_ == <<VStr("F"), VStr("FALSE"), VStr("N"), VStr("NO"), VStr("0"), VInt(0)>>
InSet(s, v) == \E i \in 1..Len(s) : PyEq(s[i], v)

BooleanDeserialize(h, f, value) ==
    LET v == IF value.t = "str" THEN VStr(Upper(value.s)) ELSE value IN
    IF v.t \in {"list", "map"} THEN Raise(h, "TypeError", "unhashable type")
    ELSE IF InSet(Truthy_, v) THEN Ret(h, VBool(TRUE))
    ELSE IF InSet(Falsy_, v) THEN Ret(h, VBool(FALSE))
    ELSE Raise(h, "ValidationError", "Field " \o FmtName(f.name) \o " must be a boolean value")

(***************************************************************************)
(* class_registry: register and get_class.                                 *)
(***************************************************************************)
HasKey(reg, key) == key \in DOMAIN reg
SetKey(reg, key, val) == (key :> val) @@ reg

FullPath(module, classname) == module \o "." \o classname

\* a variant that replaces the classes registered under the simple name
RegisterSimpleReplace(reg, cls, classname, cid) == SetKey(reg, classname, <<cid>>)

\* the update of the simple-name entry (class_registry.py lines 44-49)
RegisterSimple(reg, cls, classname, cid) ==
    LET module == cls[cid].module IN
    IF HasKey(reg, classname)
       /\ ~\E i \in 1..Len(reg[classname]) : cls[reg[classname][i]].module = module
    THEN SetKey(reg, classname, Append(reg[classname], cid))
    ELSE IF ~HasKey(reg, classname) THEN SetKey(reg, classname, <<cid>>)
    ELSE reg

\* a variant that keeps the class already registered under the full path
RegisterFullKeep(reg, cls, classname, cid) ==
    LET fullpath == FullPath(cls[cid].module, classname) IN
    IF ~HasKey(reg, fullpath) THEN SetKey(reg, fullpath, <<cid>>)
    ELSE reg

\* the update of the full-path entry (class_registry.py lines 51-56)
RegisterFull(reg, cls, classname, cid) ==
    LET fullpath == FullPath(cls[cid].module, classname) IN
    IF ~HasKey(reg, fullpath) THEN SetKey(reg, fullpath, <<cid>>)
    ELSE SetKey(reg, fullpath, <<cid>>)

\* a variant that appends every class to the entry of its simple name
registerEveryClass(reg, cls, classname, cid) ==
    RegisterFull(IF HasKey(reg, classname)
                 THEN SetKey(reg, classname, Append(reg[classname], cid))
                 ELSE SetKey(reg, classname, <<cid>>),
                 cls, classname, cid)

\* register (class_registry.py lines 18-57)
register(reg, cls, classname, cid) ==
    RegisterFull(RegisterSimple(reg, cls, classname, cid), cls, classname, cid)

\* get_class: both failures raise APIException with the same detail; the
\* message that tells them apart is only printed
ContactAdmin == "Contact admin for support"

get_class(h, classname) ==
    LET h1 == Log(h, "get_class", 0, classname) IN
    IF ~HasKey(h.registry, classname)
    THEN Raise(Log(h1, "print", 0, "Class with name " \o classname \o " was not found"),
               "APIException", ContactAdmin)
    ELSE IF Len(h.registry[classname]) > 1
    THEN Raise(Log(h1, "print", 0, "Multiple classes with name " \o classname \o " were found."),
               "APIException", ContactAdmin)
    ELSE Ret(h1, h.registry[classname][1])

(***************************************************************************)
(* Schema.__init__ and Schema._init_fields.  A dict of fields is a         *)
(* sequence of (name, field object) pairs in insertion order.              *)
(***************************************************************************)
Pair(name, fid) == [name |-> name, fid |-> fid]

\* copy.deepcopy(self._declared_fields): every field object is copied by
\* Field.__deepcopy__; the memo gives one copy to an object that occurs twice
RECURSIVE DeepCopyFields(_, _, _, _)
DeepCopyFields(h, pairs, i, acc) ==
    IF i > Len(pairs) THEN [h |-> h, pairs |-> acc]
    ELSE IF \E j \in 1..(i - 1) : pairs[j].fid = pairs[i].fid
    THEN DeepCopyFields(h, pairs, i + 1,
             Append(acc, Pair(pairs[i].name,
                              acc[CHOOSE j \in 1..(i - 1) : pairs[j].fid = pairs[i].fid].fid)))
    ELSE DeepCopyFields(Alloc(h, h.fields[pairs[i].fid]), pairs, i + 1,
                        Append(acc, Pair(pairs[i].name, NewId(h))))

RECURSIVE BindAll(_, _, _, _)
BindAll(h, pairs, i, sid) ==
    IF i > Len(pairs) THEN h
    ELSE BindAll(BindToSchema(h, pairs[i].fid, pairs[i].name, SchemaRef(sid)), pairs, i + 1, sid)

\* a variant that leaves out the field declared last
SetLoadFieldsButLast(h, sid) ==
    [h EXCEPT !.schemas[sid].load_fields =
                 SubSeq(h.schemas[sid].declared_fields, 1, Len(h.schemas[sid].declared_fields) - 1)]

\* self.load_fields = dict(fields_dict.items())
SetLoadFields(h, sid) == [h EXCEPT !.schemas[sid].load_fields = h.schemas[sid].declared_fields]

\* Schema._init_fields
InitFields(h, sid) == SetLoadFields(BindAll(h, h.schemas[sid].declared_fields, 1, sid), sid)

\* Schema.__init__ after the deep copy c of the declared fields
NewInstance(c, cid, many) ==
    Ret(InitFields([c.h EXCEPT !.schemas =
                       Append(@, [cls |-> cid, many |-> many, declared_fields |-> c.pairs,
                                  load_fields |-> <<>>])],
                   Len(c.h.schemas) + 1),
        Len(c.h.schemas) + 1)

\* Schema.__init__: the result value is the new instance
SchemaNew(h, cid, many) ==
    NewInstance(DeepCopyFields(Log(h, "construct", cid, ""), h.classes[cid].declared, 1, <<>>),
                cid, many)

\* copy.copy(schema instance): a new instance with the same attribute values
SchemaCopy(h, sid) ==
    Ret([Log(h, "copy", sid, "") EXCEPT !.schemas = Append(@, h.schemas[sid])],
        Len(h.schemas) + 1)

(***************************************************************************)
(* Nested.schema: the lazily resolved, cached child schema instance.       *)
(***************************************************************************)
\* the cache is filled: self._schema = instance
Cache(h, fid, sid) ==
    Ret([h EXCEPT !.fields[fid].schema = sid, !.fields[fid].resolved = @ + 1], sid)

\* self._schema._init_fields() on the copy c, which is then the cached instance
CacheCopy(c, fid) == Cache(InitFields(c.h, c.val), fid, c.val)

\* the branch of a SchemaABC instance n.val: copy it and rebuild the copy's fields
ResolveInstance(n, fid) == CacheCopy(SchemaCopy(n.h, n.val), fid)

\* self._schema = schema_class(many=self.many), s being the construction
CacheNew(s, fid) == Cache(s.h, fid, s.val)

\* the branch of a schema class c.val (or of the failure c of get_class)
ResolveClass(c, fid) ==
    IF c.exc # "none" THEN c
    ELSE CacheNew(SchemaNew(c.h, c.val, c.h.fields[fid].many), fid)

\* a variant that does not accept a class name
ResolveNoName(h, fid) ==
    CASE h.fields[fid].nested.form = "factory" ->
            ResolveInstance(SchemaNew(Log(h, "factory", fid, ""), h.fields[fid].nested.ref,
                                      h.fields[fid].nested.many), fid)
      [] h.fields[fid].nested.form = "instance" ->
            ResolveInstance(Ret(h, h.fields[fid].nested.ref), fid)
      [] h.fields[fid].nested.form = "type" ->
            ResolveClass(Ret(h, h.fields[fid].nested.ref), fid)
      [] OTHER -> Raise(h, "APIException", ContactAdmin)

\* the body of Nested.schema when the cache is empty
Resolve(h, fid) ==
    CASE h.fields[fid].nested.form = "factory" ->
            ResolveInstance(SchemaNew(Log(h, "factory", fid, ""), h.fields[fid].nested.ref,
                                      h.fields[fid].nested.many), fid)
      [] h.fields[fid].nested.form = "instance" ->
            ResolveInstance(Ret(h, h.fields[fid].nested.ref), fid)
      [] h.fields[fid].nested.form = "type" ->
            ResolveClass(Ret(h, h.fields[fid].nested.ref), fid)
      [] h.fields[fid].nested.form = "name" ->
            ResolveClass(get_class(h, h.fields[fid].nested.name), fid)
      [] OTHER -> Raise(h, "APIException", ContactAdmin)

\* a variant that does not read the cache
NestedSchemaNoCache(h, fid) ==
    Resolve(Log(h, "resolve", fid, h.fields[fid].nested.form), fid)

NestedSchema(h, fid) ==
    IF h.fields[fid].schema # 0 THEN Ret(h, h.fields[fid].schema)
    ELSE Resolve(Log(h, "resolve", fid, h.fields[fid].nested.form), fid)

(***************************************************************************)
(* Field.deserialize, the _deserialize of List and Nested, and             *)
(* Schema._deserialize and Schema.load, which call one another.            *)
(***************************************************************************)
RECURSIVE FieldDeserialize(_, _, _)
RECURSIVE ListLoop(_, _, _, _, _)
RECURSIVE SchemaDeserialize(_, _, _, _)
RECURSIVE FieldsLoop(_, _, _, _, _)
RECURSIVE ManyLoop(_, _, _, _, _)

\* a variant that always takes many from the instance
SchemaLoadOwnMany(h, sid, data, many) == SchemaDeserialize(h, sid, data, h.schemas[sid].many)

\* Schema.load
SchemaLoad(h, sid, data, many) ==
    SchemaDeserialize(h, sid, data,
                      IF many = None THEN h.schemas[sid].many ELSE Truthy(many))

\* return self.schema.load(value), s being the second read of self.schema
LoadNested(s, value) ==
    IF s.exc # "none" THEN s ELSE SchemaLoad(s.h, s.val, value, None)

\* Nested._deserialize after the first read s of self.schema
CheckMany(s, fid, value) ==
    IF s.exc # "none" THEN s
    ELSE IF (s.h.schemas[s.val].many \/ s.h.fields[fid].many) /\ ~is_collection(value)
    THEN Raise(s.h, "ValidationError",
               "Field " \o FmtName(s.h.fields[fid].name) \o " must be iterable")
    ELSE LoadNested(NestedSchema(s.h, fid), value)

\* Nested._deserialize
NestedDeserialize(h, fid, value) == CheckMany(NestedSchema(h, fid), fid, value)

\* the wrapping of an element's failure by List._deserialize (lines 245-248)
ListElementError(r, name, idx) ==
    IF IsValidationError(r.exc)
    THEN Raise(r.h, "ValidationError",
               "Field " \o FmtName(name) \o "[" \o ToString(idx + 1) \o "]: " \o r.detail)
    ELSE r

\* one turn of the loop of List._deserialize, r being the element's outcome
ListStep(r, fid, value, idx, result) ==
    IF r.exc # "none" THEN ListElementError(r, r.h.fields[fid].name, idx)
    ELSE ListLoop(r.h, fid, value, idx + 1, Append(result, r.val))

\* the loop of List._deserialize; idx is the 0-based position of enumerate
ListLoop(h, fid, value, idx, result) ==
    IF idx >= Len(value) THEN Ret(h, ListV(result))
    ELSE ListStep(FieldDeserialize(h, h.fields[fid].inner, value[idx + 1]),
                  fid, value, idx, result)

\* List._deserialize
ListDeserialize(h, fid, value) ==
    IF ~is_collection(value)
    THEN Raise(h, "ValidationError", "Field " \o FmtName(h.fields[fid].name) \o " must be iterable")
    ELSE ListLoop(h, fid, value.items, 0, <<>>)

\* self._deserialize(value, attr, data) dispatched on the field's class
Coerce(h, fid, value) ==
    CASE h.fields[fid].kind = "Field" -> Ret(h, value)
      [] h.fields[fid].kind = "String" -> StringDeserialize(h, h.fields[fid], value)
      [] h.fields[fid].kind = "Float" -> FloatValidated(h, h.fields[fid], value)
      [] h.fields[fid].kind = "Integer" -> IntegerValidated(h, h.fields[fid], value)
      [] h.fields[fid].kind = "Boolean" -> BooleanDeserialize(h, h.fields[fid], value)
      [] h.fields[fid].kind = "List" -> ListDeserialize(h, fid, value)
      [] h.fields[fid].kind = "Nested" -> NestedDeserialize(h, fid, value)

\* a variant that returns a producer itself instead of calling it
DefaultValueUncalled(f) == f.load_default

\* the value returned for a missing input: the default, called if callable
DefaultValue(f) ==
    IF f.load_default.t = "callable" THEN f.load_default.r ELSE f.load_default

\* return output, once the validators have run with outcome checked
Output(checked, output) ==
    IF checked.exc # "none" THEN checked ELSE Ret(checked.h, output)

\* self._validate(value=output, name=self.name), output being the outcome of
\* self._deserialize
Validate(output, fid) ==
    IF output.exc # "none" THEN output
    ELSE Output(AndCall(output.h, fid, output.val, 1), output.val)

\* Field.deserialize
FieldDeserialize(h, fid, value) ==
    IF ValidateMissing(h.fields[fid], value) # "none"
    THEN Raise(Log(h, "deserialize", fid, h.fields[fid].name),
               ValidateMissing(h.fields[fid], value), RequiredMessage(h.fields[fid].name))
    ELSE IF IsMissingLike(value)
    THEN Ret(Log(h, "deserialize", fid, h.fields[fid].name), DefaultValue(h.fields[fid]))
    ELSE Validate(Coerce(Log(Log(h, "deserialize", fid, h.fields[fid].name),
                             "_deserialize", fid, h.fields[fid].name), fid, value), fid)

\* a variant that goes on to the next field after a failure
FieldStepOn(r, sid, data, i, ret_d) ==
    FieldsLoop(r.h, sid, data, i + 1,
               IF r.exc = "none" /\ r.val # Missing
               THEN MapSet(ret_d, r.h.schemas[sid].load_fields[i].name, r.val)
               ELSE ret_d)

\* one turn of the walk over load_fields, r being the field's outcome
FieldStep(r, sid, data, i, ret_d) ==
    IF r.exc # "none" THEN r
    ELSE FieldsLoop(r.h, sid, data, i + 1,
                    IF r.val # Missing
                    THEN MapSet(ret_d, r.h.schemas[sid].load_fields[i].name, r.val)
                    ELSE ret_d)

\* the walk over load_fields of Schema._deserialize (lines 202-210)
FieldsLoop(h, sid, data, i, ret_d) ==
    IF i > Len(h.schemas[sid].load_fields) THEN Ret(h, ret_d)
    ELSE FieldStep(FieldDeserialize(h, h.schemas[sid].load_fields[i].fid,
                                    MapGet(data, h.schemas[sid].load_fields[i].name, Missing)),
                   sid, data, i, ret_d)

\* one turn of the comprehension, r being the element's outcome
ManyStep(r, sid, data, idx, ret_l) ==
    IF r.exc # "none" THEN r ELSE ManyLoop(r.h, sid, data, idx + 1, Append(ret_l, r.val))

\* the comprehension over the elements of Schema._deserialize (lines 185-195)
ManyLoop(h, sid, data, idx, ret_l) ==
    IF idx >= Len(data) THEN Ret(h, ListV(ret_l))
    ELSE ManyStep(SchemaDeserialize(h, sid, data[idx + 1], FALSE), sid, data, idx, ret_l)

\* a variant that fills the output starting from the input mapping
SchemaDeserializeInto(h, sid, data, many) ==
    IF many
    THEN IF ~is_collection(data) THEN Raise(h, "ValidationError", "Except data is an iterable value")
         ELSE ManyLoop(h, sid, data.items, 0, <<>>)
    ELSE IF data.t # "map" THEN Raise(h, "ValidationError", "Except data is an objects")
    ELSE FieldsLoop(h, sid, data, 1, data)

\* Schema._deserialize
SchemaDeserialize(h, sid, data, many) ==
    IF many
    THEN IF ~is_collection(data) THEN Raise(h, "ValidationError", "Except data is an iterable value")
         ELSE ManyLoop(h, sid, data.items, 0, <<>>)
    ELSE IF data.t # "map" THEN Raise(h, "ValidationError", "Except data is an objects")
    ELSE FieldsLoop(h, sid, data, 1, EmptyMap)

(***************************************************************************)
(* The state at import time: class Schema itself has been created by       *)
(* SchemaMeta and registered; it declares no field.                        *)
(***************************************************************************)
SchemaModule == "schema.schema"
SchemaClass ==
    [name |-> "Schema", module |-> SchemaModule, bases |-> <<>>, mro |-> <<1>>, own |-> <<>>,
     declared |-> <<>>]
ImportedClasses == <<SchemaClass>>
ImportedRegistry == register(<<>>, ImportedClasses, "Schema", 1)

ImportedHeap == [registry |-> ImportedRegistry, classes |-> ImportedClasses, fields |-> <<>>,
                 schemas |-> <<>>, log |-> <<>>]

NoCall == [op |-> "init", id |-> 0, arg |-> None, exc |-> "none", detail |-> "",
           val |-> None, log |-> <<>>]

\* the program state before a call, and the state and outcome after it
Heap == [registry |-> registry, classes |-> classes, fields |-> fields,
         schemas |-> schemas, log |-> <<>>]

Update(r, op, id, arg) ==
    /\ registry' = r.h.registry
    /\ classes' = r.h.classes
    /\ fields' = r.h.fields
    /\ schemas' = r.h.schemas
    /\ last' = [op |-> op, id |-> id, arg |-> arg, exc |-> r.exc, detail |-> r.detail,
                val |-> r.val, log |-> r.h.log]
    /\ threads' = threads

\* a call whose heap stays within the bounds of the field specifications
Commit(r, op, id, arg) ==
    /\ Len(r.h.fields) <= MaxFieldObjs
    /\ Len(r.h.schemas) <= MaxSchemas
    /\ Update(r, op, id, arg)

(***************************************************************************)
(* Specification SpecField: one field object of any kind and configuration *)
(* is created, bound to either of two schema instances, any number of      *)
(* times, and made to deserialize values.                                  *)
(***************************************************************************)
Defaults ==
    {Missing, None, VInt(0), VBool(FALSE), ListV(<<>>), VStr("d"), VInt(5),
     Func(VInt(5)), Func(VInt(0))}

ValidatorLists ==
    {<<>>, <<NotEqual(VInt(7))>>, <<OneOf(<<VStr("ok"), VInt(0), VInt(7)>>), NotEqual(VStr("ok"))>>,
     <<OneOf(<<VInt(7), VStr("42")>>), Wrap>>, <<NotEqual(VInt(7)), OneOf(<<VInt(0)>>)>>}

ScalarKinds == {"Field", "String", "Integer", "Float", "Boolean"}

ScalarFields ==
    {NewField(k, r, d, v) : k \in ScalarKinds, r \in BOOLEAN, d \in Defaults, v \in ValidatorLists}

InputValues ==
    {Missing, None, VStr(""), VStr("ok"), VStr("42"), VStr("yes"), VInt(0), VInt(7),
     VBool(TRUE), Huge, ListV(<<>>), ListV(<<VStr("ok"), VInt(7)>>), EmptyMap}

\* the field objects of one declaration: the field itself is object 1; a
\* List field's inner field is object 2
FieldHeaps ==
    {<<f>> : f \in ScalarFields}
    \cup {<<[NewField("Nested", r, d, <<>>) EXCEPT !.nested = NestedByName(n)]>> :
             r \in BOOLEAN, d \in Defaults, n \in {"Schema", "Undefined"}}
    \cup {<<[NewField("List", r, d, <<>>) EXCEPT !.inner = 2], NewField(k, FALSE, Missing, <<>>)>> :
             r \in BOOLEAN, d \in Defaults, k \in {"String", "Integer"}}

FieldNames == {"f", "g"}

InitField ==
    /\ registry = ImportedRegistry
    /\ classes = ImportedClasses
    /\ fields \in FieldHeaps
    /\ schemas = SchemaNew(SchemaNew(ImportedHeap, 1, FALSE).h, 1, FALSE).h.schemas
    /\ last = NoCall
    /\ threads = <<>>

\* field._bind_to_schema(name, schema) for one of the two schema instances
BindField(name, sid) ==
    Commit(Ret(BindToSchema(Heap, 1, name, SchemaRef(sid)), None), "bind", 1,
           ListV(<<VStr(name), VInt(sid)>>))

\* field.deserialize(value)
DeserializeField(value) ==
    Commit(FieldDeserialize(Heap, 1, value), "deserialize", 1, value)

NextField ==
    \/ \E name \in FieldNames, sid \in 1..2 : BindField(name, sid)
    \/ \E value \in InputValues : DeserializeField(value)

SpecField == InitField /\ [][NextField]_vars

(***************************************************************************)
(* Properties of Field.deserialize, checked under SpecField.               *)
(***************************************************************************)
\* the last call was field.deserialize(value) of the field under test
Deserialized == last.op = "deserialize" /\ last.id = 1

\* the calls of kind e made by the last operation on object id
Called(e, id) == \E i \in 1..Len(last.log) : last.log[i].e = e /\ last.log[i].id = id

C2_RequiredWithDefaultSucceeds ==
    (Deserialized /\ fields[1].required /\ fields[1].load_default # Missing
       /\ last.arg = Missing)
    => /\ last.exc = "none"
       /\ last.val = DefaultValue(fields[1])

(***************************************************************************)
(* Specification SpecList: a List field over an inner field of any scalar  *)
(* kind is created, bound under the name "tags", and made to deserialize   *)
(* sequences of at most MaxListLen elements.                               *)
(***************************************************************************)
InnerFields ==
    {NewField(k, r, Missing, v) :
        k \in {"String", "Integer", "Float"}, r \in BOOLEAN,
        v \in {<<>>, <<NotEqual(VStr("bad"))>>}}

ElementValues == {VStr("ok"), VStr("bad"), VInt(123), VStr(""), Huge}

RECURSIVE SeqsUpTo(_, _)
SeqsUpTo(S, n) ==
    IF n = 0 THEN {<<>>}
    ELSE SeqsUpTo(S, n - 1) \cup {Append(q, x) : q \in SeqsUpTo(S, n - 1), x \in S}

ListInputs == {ListV(q) : q \in SeqsUpTo(ElementValues, MaxListLen)} \cup {VStr("ok"), EmptyMap}

InitList ==
    /\ registry = ImportedRegistry
    /\ classes = ImportedClasses
    /\ fields \in {<<[NewField("List", FALSE, Missing, <<>>) EXCEPT !.inner = 2], f>> :
                       f \in InnerFields}
    /\ schemas = SchemaNew(ImportedHeap, 1, FALSE).h.schemas
    /\ last = NoCall
    /\ threads = <<>>

\* tags._bind_to_schema("tags", schema)
BindList ==
    Commit(Ret(BindToSchema(Heap, 1, "tags", SchemaRef(1)), None), "bind", 1, VStr("tags"))

\* tags.deserialize(value)
DeserializeList(value) ==
    Commit(FieldDeserialize(Heap, 1, value), "deserialize", 1, value)

NextList ==
    \/ BindList
    \/ \E value \in ListInputs : DeserializeList(value)

SpecList == InitList /\ [][NextList]_vars

(***************************************************************************)
(* Properties of List._deserialize, checked under SpecList.                *)
(***************************************************************************)
\* the outcome of the inner field on element x alone
InnerOutcome(x) == FieldDeserialize(Heap, fields[1].inner, x)

\* the 0-based positions of the elements of q that the inner field rejects
InvalidAt(q) == {i \in 0..(Len(q) - 1) : InnerOutcome(q[i + 1]).exc # "none"}
FirstInvalid(q) == CHOOSE i \in InvalidAt(q) : \A j \in InvalidAt(q) : i <= j

\* the number of calls of deserialize made on the inner field by the last operation
InnerCalls ==
    Cardinality({k \in 1..Len(last.log) :
                    last.log[k].e = "deserialize" /\ last.log[k].id = fields[1].inner})

\* the bound list field has deserialized a sequence with an invalid element
ListElementFailed ==
    /\ Deserialized /\ fields[1].name # ""
    /\ last.arg.t = "list" /\ InvalidAt(last.arg.items) # {}

\* n[i+1] for the list field's name n
ElementPath(i) == fields[1].name \o "[" \o ToString(i + 1) \o "]"

\* C4: when the first invalid element of the sequence is at 0-based position
\* i, the list field fails with a message that references n[i+1] and keeps
\* the inner failure's message, and no element after i is deserialized.
C4_ListFailureNamesPosition ==
    ListElementFailed
    => /\ last.exc # "none"
       /\ Contains(last.detail, ElementPath(FirstInvalid(last.arg.items)))
       /\ Contains(last.detail, InnerOutcome(last.arg.items[FirstInvalid(last.arg.items) + 1]).detail)
       /\ InnerCalls = FirstInvalid(last.arg.items) + 1

\* C5: whatever the kind of the inner failure, the list field fails with the
\* same kind of failure, the field path extended by the element's position.
C5_ListFailureKeepsKind ==
    ListElementFailed
    => /\ last.exc = InnerOutcome(last.arg.items[FirstInvalid(last.arg.items) + 1]).exc
       /\ Contains(last.detail, ElementPath(FirstInvalid(last.arg.items)))

(***************************************************************************)
(* Specification SpecRegistry: class objects are created in several        *)
(* modules and registered, classes are registered again under a name, and  *)
(* names are looked up.                                                    *)
(***************************************************************************)
RegistryNames == {"A", "B"}
RegistryModules == {"m1", "m2"}
Unregistered == "C"         \* a name no register call ever uses
LookupNames ==
    RegistryNames \cup {FullPath(m, n) : m \in RegistryModules, n \in RegistryNames}
    \cup {"Schema", FullPath(SchemaModule, "Schema"), Unregistered}

InitRegistry ==
    /\ registry = ImportedRegistry
    /\ classes = ImportedClasses
    /\ fields = <<>>
    /\ schemas = <<>>
    /\ last = NoCall
    /\ threads = <<>>

\* a class object without fields of its own, created in module
EmptyClass(name, module, cid) ==
    [name |-> name, module |-> module, bases |-> <<1>>, mro |-> <<cid, 1>>, own |-> <<>>,
     declared |-> <<>>]

\* register(classname, cls) for a given heap and class object
Registered(h, classname, cid) ==
    Ret([Log(h, "register", cid, classname) EXCEPT
             !.registry = register(h.registry, h.classes, classname, cid)], None)

AddClass(h, c) == [h EXCEPT !.classes = Append(@, c)]

\* SchemaMeta.__init__ of a new class named name in module: register(name, cls)
RegisterNew(name, module) ==
    /\ Len(classes) < MaxRegistered
    /\ Update(Registered(AddClass(Heap, EmptyClass(name, module, Len(classes) + 1)),
                         name, Len(classes) + 1),
              "register", Len(classes) + 1, VStr(name))

\* register(classname, cls) called again for an existing class object
RegisterAgain(name, cid) ==
    Update(Registered(Heap, name, cid), "register", cid, VStr(name))

\* get_class(classname)
GetClass(name) == Update(get_class(Heap, name), "get_class", 0, VStr(name))

NextRegistry ==
    \/ \E name \in RegistryNames, module \in RegistryModules : RegisterNew(name, module)
    \/ \E name \in RegistryNames, cid \in 2..Len(classes) : RegisterAgain(name, cid)
    \/ \E name \in LookupNames : GetClass(name)

SpecRegistry == InitRegistry /\ [][NextRegistry]_vars

(***************************************************************************)
(* Properties of the class registry, checked under SpecRegistry.           *)
(***************************************************************************)
IsFullPath(key) == Contains(key, ".")

\* the simple name holds classes of two different modules
Ambiguous(name) ==
    /\ HasKey(registry, name)
    /\ \E i, j \in 1..Len(registry[name]) :
          /\ registry[name][i] # registry[name][j]
          /\ classes[registry[name][i]].module # classes[registry[name][j]].module

\* what a caller of get_class receives for a name that was never registered
NotFoundFailure == [exc |-> get_class(Heap, Unregistered).exc,
                    detail |-> get_class(Heap, Unregistered).detail]

\* C7: a resolve of a simple name registered from two modules fails, and the
\* failure the caller receives differs from the failure for a name that was
\* never registered.
C7_AmbiguousDistinctFromNotFound ==
    (last.op = "get_class" /\ ~IsFullPath(last.arg.s) /\ Ambiguous(last.arg.s))
    => /\ last.exc # "none"
       /\ [exc |-> last.exc, detail |-> last.detail] # NotFoundFailure

\* the full-path key that a register call of classname for class cid writes
FullKey(cid, classname) == FullPath(classes[cid].module, classname)

\* a register call has just replaced the entry of its full path by the class
\* it was given, and has left every other full-path entry as it was
RegisterReplaces ==
    last'.op = "register"
    => /\ registry'[FullPath(classes'[last'.id].module, last'.arg.s)] = <<last'.id>>
       /\ \A key \in DOMAIN registry :
             (IsFullPath(key) /\ key # FullPath(classes'[last'.id].module, last'.arg.s))
             => registry'[key] = registry[key]

\* a resolve of a registered full path has just returned the class its entry held
ResolveFullPath ==
    (last'.op = "get_class" /\ IsFullPath(last'.arg.s) /\ HasKey(registry, last'.arg.s))
    => /\ last'.exc = "none"
       /\ registry[last'.arg.s] = <<last'.val>>
       /\ registry' = registry

\* C8: a registered fully-qualified name always resolves, whatever the state
\* of its simple name, to the class most recently registered under it: every
\* register call replaces the entry of its full path and no other, and every
\* resolve returns the entry.
C8_FullPathResolvesToNewest == [][RegisterReplaces /\ ResolveFullPath]_vars

\* a full path resolved to the class registered last under it, which replaced
\* an earlier class, while its simple name is ambiguous
C8_Witness ==
    /\ last.op = "get_class" /\ IsFullPath(last.arg.s) /\ last.exc = "none"
    /\ \E name \in RegistryNames :
          /\ Ambiguous(name)
          /\ last.arg.s = FullKey(last.val, name)
          /\ \E cid \in 2..Len(classes) :
                cid < last.val /\ classes[cid].name = name
                /\ classes[cid].module = classes[last.val].module

(***************************************************************************)
(* SchemaMeta: the creation of a schema class from a class statement.      *)
(***************************************************************************)
\* inspect.getmro: the C3 merge of the linearisations of the bases; the
\* result is <<>> when no consistent order exists (type() raises TypeError)
InTail(c, seqs) ==
    \E i \in 1..Len(seqs) : \E k \in 2..Len(seqs[i]) : seqs[i][k] = c
GoodHead(seqs, i) == seqs[i] # <<>> /\ ~InTail(seqs[i][1], seqs)
DropHead(seqs, c) ==
    [i \in 1..Len(seqs) |-> IF seqs[i] # <<>> /\ seqs[i][1] = c THEN Tail(seqs[i]) ELSE seqs[i]]

RECURSIVE Merge(_, _)
MergeTake(seqs, acc, c) == Merge(DropHead(seqs, c), Append(acc, c))
Merge(seqs, acc) ==
    IF \A i \in 1..Len(seqs) : seqs[i] = <<>> THEN acc
    ELSE IF ~\E i \in 1..Len(seqs) : GoodHead(seqs, i) THEN <<>>
    ELSE MergeTake(seqs, acc,
                   seqs[CHOOSE i \in 1..Len(seqs) :
                           GoodHead(seqs, i) /\ \A j \in 1..(i - 1) : ~GoodHead(seqs, j)][1])

Mro(cls, cid, bases) ==
    Merge([i \in 1..(Len(bases) + 1) |->
              IF i <= Len(bases) THEN cls[bases[i]].mro ELSE bases], <<cid>>)

\* a variant in which a key set again moves to the end
DictPutMove(acc, p) ==
    Append(SelectSeq(acc, LAMBDA q : q.name # p.name), p)

\* dict(items): a key keeps the position of its first occurrence and the
\* value of its last
DictPut(acc, p) ==
    IF \E j \in 1..Len(acc) : acc[j].name = p.name
    THEN [acc EXCEPT ![CHOOSE j \in 1..Len(acc) : acc[j].name = p.name] = p]
    ELSE Append(acc, p)

RECURSIVE DictOf(_, _, _)
DictOf(items, i, acc) ==
    IF i > Len(items) THEN acc ELSE DictOf(items, i + 1, DictPut(acc, items[i]))

\* _get_fields_by_mro: the declared fields of mro[:0:-1], farthest class first
RECURSIVE InheritedFields(_, _, _)
InheritedFields(cls, mro, k) ==
    IF k < 2 THEN <<>> ELSE cls[mro[k]].declared \o InheritedFields(cls, mro, k - 1)

\* the class object a name denotes in module at this point of the program:
\* the newest class of that name defined in the module, or the imported Schema
Denotes(c, module, name) == c.name = name /\ c.module \in {module, SchemaModule}
IsDefined(cls, module, name) == \E c \in 1..Len(cls) : Denotes(cls[c], module, name)
LatestClass(cls, module, name) ==
    CHOOSE c \in 1..Len(cls) :
        /\ Denotes(cls[c], module, name)
        /\ \A c2 \in 1..Len(cls) : Denotes(cls[c2], module, name) => c2 <= c

\* one attribute of a class body: name = <field expression>; target is the
\* class name the expression mentions (Nested(Child), Nested(Child()),
\* Nested(lambda: Child(...))), inner the element field of a List
FieldDecl(name, field, target, inner) ==
    [name |-> name, field |-> field, target |-> target, inner |-> inner]

\* the field object of Nested(Target(many=m)), s being the construction of
\* Target(many=m)
InstanceField(s, e) ==
    Ret(Alloc(s.h, [e.field EXCEPT !.nested.ref = s.val]), NewId(s.h))

\* the evaluation of one field expression of the class body: the new field object
DeclareField(h, e, module) ==
    CASE e.field.nested.form = "instance" ->
            InstanceField(SchemaNew(h, LatestClass(h.classes, module, e.target),
                                    e.field.nested.many), e)
      [] e.field.nested.form \in {"type", "factory"} ->
            Ret(Alloc(h, [e.field EXCEPT
                             !.nested.ref = LatestClass(h.classes, module, e.target)]),
                NewId(h))
      [] e.field.kind = "List" ->
            Ret(Alloc(Alloc(h, e.inner), [e.field EXCEPT !.inner = NewId(h)]), NewId(h) + 1)
      [] OTHER -> Ret(Alloc(h, e.field), NewId(h))

\* the evaluation of the class body: attrs, in order of assignment
RECURSIVE Body(_, _, _, _)
BodyStep(r, d, i, attrs) == Body(r.h, d, i + 1, Append(attrs, Pair(d.body[i].name, r.val)))
Body(h, d, i, attrs) ==
    IF i > Len(d.body) THEN [h |-> h, pairs |-> attrs]
    ELSE BodyStep(DeclareField(h, d.body[i], d.module), d, i, attrs)

BaseIds(cls, d) == [i \in 1..Len(d.bases) |-> LatestClass(cls, d.module, d.bases[i])]

\* SchemaMeta.__new__: klass._declared_fields = dict(inherited_fields + cls_fields)
ClassObject(cls, d, mro, cls_fields) ==
    [name |-> d.name, module |-> d.module, bases |-> BaseIds(cls, d), mro |-> mro,
     own |-> cls_fields,
     declared |-> DictOf(InheritedFields(cls, mro, Len(mro)) \o cls_fields, 1, <<>>)]

MetaNew(b, d) ==
    AddClass(b.h, ClassObject(b.h.classes, d,
                              Mro(b.h.classes, Len(b.h.classes) + 1, BaseIds(b.h.classes, d)),
                              b.pairs))

\* SchemaMeta.__init__: if name: class_registry.register(name, cls)
MetaInit(h, name) ==
    IF name # "" THEN Ret(Registered(h, name, Len(h.classes)).h, Len(h.classes))
    ELSE Ret(h, Len(h.classes))

\* super().__new__ raises TypeError when the bases have no consistent
\* linearisation; the field objects of the body are then referenced by nothing
\* and the heap is the heap h before the body
MetaCall(h, b, d) ==
    IF Mro(b.h.classes, Len(b.h.classes) + 1, BaseIds(b.h.classes, d)) = <<>>
    THEN Raise(h, "TypeError", "Cannot create a consistent method resolution order (MRO)")
    ELSE MetaInit(MetaNew(b, d), d.name)

\* the class statement d: body, SchemaMeta.__new__, SchemaMeta.__init__
ClassNew(h, d) ==
    MetaCall(Log(h, "define", 0, d.name), Body(Log(h, "define", 0, d.name), d, 1, <<>>), d)

(***************************************************************************)
(* Specification Spec: a program defines schema classes, constructs schema *)
(* instances and loads data with them, in any order.                       *)
(***************************************************************************)
MaxObjects == 12       \* field objects in the heap of the schema specification
MaxInstances == 3      \* schema instances in the heap of the schema specification

App == "app"
NoInner == NewField("Field", FALSE, Missing, <<>>)
Plain(name, field) == FieldDecl(name, field, "", NoInner)
NestedName(name, n) ==
    Plain(name, [NewField("Nested", FALSE, Missing, <<>>) EXCEPT !.nested = NestedByName(n)])

\* class Child(Schema): name = String(required=True); parent = Nested("Parent")
ChildDecl ==
    [name |-> "Child", module |-> App, bases |-> <<"Schema">>,
     body |-> <<Plain("name", NewField("String", TRUE, Missing, <<>>)),
                NestedName("parent", "Parent")>>]

\* class Parent(Schema): title = String(required=True); child = Nested("Child");
\* count = Integer()
ParentDecl ==
    [name |-> "Parent", module |-> App, bases |-> <<"Schema">>,
     body |-> <<Plain("title", NewField("String", TRUE, Missing, <<>>)),
                NestedName("child", "Child"),
                Plain("count", NewField("Integer", FALSE, Missing, <<>>))>>]

\* class Node(Schema): value = Integer(required=True); next = Nested("Node")
NodeDecl ==
    [name |-> "Node", module |-> App, bases |-> <<"Schema">>,
     body |-> <<Plain("value", NewField("Integer", TRUE, Missing, <<>>)),
                NestedName("next", "Node")>>]

\* in another module, class Node(Schema): value = String()
OtherNodeDecl ==
    [name |-> "Node", module |-> "other", bases |-> <<"Schema">>,
     body |-> <<Plain("value", NewField("String", FALSE, Missing, <<>>))>>]

\* class Forms(Schema): t = Nested(Child); f = Nested(lambda: Child(many=True))
FormsDecl ==
    [name |-> "Forms", module |-> App, bases |-> <<"Schema">>,
     body |-> <<FieldDecl("t", [NewField("Nested", FALSE, Missing, <<>>) EXCEPT
                                   !.nested = NestedByType(0)], "Child", NoInner),
                FieldDecl("f", [NewField("Nested", FALSE, Missing, <<>>) EXCEPT
                                   !.nested = NestedByFactory(0, TRUE)], "Child", NoInner)>>]

\* class Holder(Schema): i = Nested(Child())
HolderDecl ==
    [name |-> "Holder", module |-> App, bases |-> <<"Schema">>,
     body |-> <<FieldDecl("i", [NewField("Nested", FALSE, Missing, <<>>) EXCEPT
                                   !.nested = NestedByInstance(0)], "Child", NoInner)>>]

\* class Sub(Parent): count = String(); tags = List(String(required=True))
SubDecl ==
    [name |-> "Sub", module |-> App, bases |-> <<"Parent">>,
     body |-> <<Plain("count", NewField("String", FALSE, Missing, <<>>)),
                FieldDecl("tags", NewField("List", FALSE, Missing, <<>>), "",
                          NewField("String", TRUE, Missing, <<>>))>>]

\* the class statements of the program in textual order; a run executes any
\* of them, in this order
Program == <<ParentDecl, ChildDecl, FormsDecl, HolderDecl, NodeDecl, OtherNodeDecl, SubDecl>>

\* the position in the program of the class statement executed last
Position(cls) ==
    IF Len(cls) = 1 THEN 0
    ELSE CHOOSE k \in 1..Len(Program) :
            /\ Program[k].name = cls[Len(cls)].name
            /\ Program[k].module = cls[Len(cls)].module

\* the names the class statement evaluates are bound: its bases and the
\* classes its field expressions mention
Definable(cls, d) ==
    /\ \A i \in 1..Len(d.bases) : IsDefined(cls, d.module, d.bases[i])
    /\ \A i \in 1..Len(d.body) :
          d.body[i].target # "" => IsDefined(cls, d.module, d.body[i].target)

Obj(keys, vals) == MapV(keys, vals)

LoadInputs ==
    {EmptyMap,
     Obj(<<"name">>, <<VStr("x")>>),
     Obj(<<"count", "child">>, <<VStr("abc"), EmptyMap>>),
     Obj(<<"title", "child", "count">>, <<VStr("t"), EmptyMap, VStr("abc")>>),
     Obj(<<"title", "child", "count">>,
         <<VStr("t"), Obj(<<"name">>, <<VStr("x")>>), VStr("7")>>),
     Obj(<<"title", "child">>,
         <<VStr("t"), Obj(<<"name", "parent">>,
                          <<VStr("x"), Obj(<<"child">>, <<EmptyMap>>)>>)>>),
     Obj(<<"value", "next">>, <<VInt(1), Obj(<<"next">>, <<EmptyMap>>)>>),
     Obj(<<"value", "next">>, <<VInt(1), Obj(<<"value">>, <<VInt(2)>>)>>),
     Obj(<<"t", "f">>,
         <<Obj(<<"name">>, <<VStr("x")>>), ListV(<<Obj(<<"name">>, <<VStr("y")>>)>>)>>),
     Obj(<<"i">>, <<EmptyMap>>),
     Obj(<<"extra", "name">>, <<VInt(1), VStr("x")>>),
     ListV(<<Obj(<<"name">>, <<VStr("x")>>), EmptyMap>>),
     VStr("x")}

Init ==
    /\ registry = ImportedRegistry
    /\ classes = ImportedClasses
    /\ fields = <<>>
    /\ schemas = <<>>
    /\ last = NoCall
    /\ threads = <<>>

\* the heap of the outcome stays within the bounds
Within(r) ==
    /\ Len(r.h.classes) <= MaxClasses
    /\ Len(r.h.fields) <= MaxObjects
    /\ Len(r.h.schemas) <= MaxInstances

\* the class statement at position k of the program is executed
DefineClass(k) ==
    /\ Len(classes) < MaxClasses
    /\ k > Position(classes)
    /\ Definable(classes, Program[k])
    /\ Within(ClassNew(Heap, Program[k]))
    /\ Update(ClassNew(Heap, Program[k]), "define", Len(classes) + 1, VStr(Program[k].name))

\* C(many=many) for the class object cid
Construct(cid, many) ==
    /\ Len(schemas) < MaxInstances
    /\ Within(SchemaNew(Heap, cid, many))
    /\ Update(SchemaNew(Heap, cid, many), "construct", cid, VBool(many))

\* instance.load(data)
Load(sid, data) ==
    /\ Within(SchemaLoad(Heap, sid, data, None))
    /\ Update(SchemaLoad(Heap, sid, data, None), "load", sid, data)

Next ==
    \/ \E k \in 1..Len(Program) : DefineClass(k)
    \/ \E cid \in 2..Len(classes), many \in BOOLEAN : Construct(cid, many)
    \/ \E sid \in 1..Len(schemas), data \in LoadInputs : Load(sid, data)

Spec == Init /\ [][Next]_vars

(***************************************************************************)
(* Properties of Schema.load, checked under Spec.                          *)
(***************************************************************************)
\* the events of kind e in the log of the last operation
EventsOf(e) == {k \in 1..Len(last.log) : last.log[k].e = e}

\* the last operation was a non-many load of a mapping
NonManyLoad == last.op = "load" /\ ~schemas[last.id].many /\ last.arg.t = "map"

TopFields == schemas[last.id].load_fields

\* the outcome of the i-th load field of the loading instance on its own
FieldOutcome(i) ==
    FieldDeserialize(Heap, TopFields[i].fid, MapGet(last.arg, TopFields[i].name, Missing))

\* the positions of the load fields that reject their value
FailingFields == {i \in 1..Len(TopFields) : FieldOutcome(i).exc # "none"}
FirstFailing == CHOOSE i \in FailingFields : \A j \in FailingFields : i <= j

\* the load fields of the loading instance whose deserialize was called, in
\* the order of the calls
IsTopCall(ev) ==
    ev.e = "deserialize" /\ \E i \in 1..Len(TopFields) : TopFields[i].fid = ev.id
TopCalls == [k \in 1..Len(SelectSeq(last.log, IsTopCall)) |->
                SelectSeq(last.log, IsTopCall)[k].id]

\* the fields up to position n, in the order of the class's declared fields
DeclaredPrefix(n) == [i \in 1..n |-> TopFields[i].fid]
InDeclarationOrder ==
    [i \in 1..Len(TopFields) |-> TopFields[i].name]
    = [i \in 1..Len(classes[schemas[last.id].cls].declared) |->
          classes[schemas[last.id].cls].declared[i].name]

\* C3: a non-many load deserializes the fields in declaration order and stops
\* at the first failing field: the failure raised is that field's failure and
\* no field declared after it is deserialized.
C3_FirstFailingFieldWins ==
    NonManyLoad
    => /\ InDeclarationOrder
       /\ IF FailingFields = {}
          THEN last.exc = "none" /\ TopCalls = DeclaredPrefix(Len(TopFields))
          ELSE /\ last.exc = FieldOutcome(FirstFailing).exc
               /\ last.detail = FieldOutcome(FirstFailing).detail
               /\ TopCalls = DeclaredPrefix(FirstFailing)

\* a load failed at a field that is neither the first nor the last declared,
\* while a field declared after it is invalid too
C3_Witness ==
    /\ NonManyLoad /\ last.exc # "none"
    /\ Cardinality(FailingFields) >= 2
    /\ FirstFailing > 1
    /\ Len(TopCalls) < Len(TopFields)

\* the field whose deserialize was entered last
LastField ==
    last.log[CHOOSE k \in EventsOf("deserialize") : \A j \in EventsOf("deserialize") : j <= k].id

\* the load failed in field LastField of the child schema of the Nested load
\* field at position c, the child being given as a mapping
ChildFieldFailed(c) ==
    /\ NonManyLoad /\ last.exc # "none"
    /\ fields[TopFields[c].fid].kind = "Nested"
    /\ fields[TopFields[c].fid].schema # 0
    /\ ~fields[TopFields[c].fid].many
    /\ ~schemas[fields[TopFields[c].fid].schema].many
    /\ MapGet(last.arg, TopFields[c].name, Missing).t = "map"
    /\ EventsOf("deserialize") # {}
    /\ fields[LastField].kind \notin {"Nested", "List"}
    /\ \E i \in 1..Len(schemas[fields[TopFields[c].fid].schema].load_fields) :
          schemas[fields[TopFields[c].fid].schema].load_fields[i].fid = LastField

\* C6: a failure of field f of the child schema reached through the Nested
\* field c carries a message that names the dotted path c.f.
C6_NestedFailureNamesPath ==
    \A c \in 1..MaxObjects :
        (last.op = "load" /\ c <= Len(TopFields) /\ ChildFieldFailed(c))
        => Contains(last.detail, fields[TopFields[c].fid].name \o "." \o fields[LastField].name)

(***************************************************************************)
(* Properties of the lazy resolution of Nested fields, checked under Spec. *)
(* They relate the state before an operation to the log of its events.     *)
(***************************************************************************)
\* the events of kind e in the log of the operation that has just run
NewEvents(e) == {k \in 1..Len(last'.log) : last'.log[k].e = e}

\* every declared Nested field of the class refers to its schema by name
ByNameOnly(cls, flds, cid) ==
    \A i \in 1..Len(cls[cid].declared) :
        flds[cls[cid].declared[i].fid].kind = "Nested"
        => flds[cls[cid].declared[i].fid].nested.form = "name"

\* a class statement or a construction has just run: it succeeded, looked up
\* and resolved nothing, filled no cache, and constructed no instance but its own
DefinitionIsLazy ==
    last'.op \in {"define", "construct"}
    => /\ last'.exc = "none"
       /\ NewEvents("get_class") = {} /\ NewEvents("resolve") = {}
       /\ \A fid \in DOMAIN fields' :
             fields'[fid].schema = IF fid \in DOMAIN fields THEN fields[fid].schema ELSE 0
       /\ (last'.op = "define" /\ ByNameOnly(classes', fields', last'.id))
          => NewEvents("construct") = {}
       /\ last'.op = "construct"
          => /\ Cardinality(NewEvents("construct")) = 1
             /\ Len(schemas') = Len(schemas) + 1

\* every resolution of the operation that has just run was made by the
\* _deserialize of the field, on a present value and with an empty cache, and
\* every registry lookup by the resolution of a field given by name
ResolvedOnUse ==
    /\ \A k \in NewEvents("resolve") :
          /\ k > 1
          /\ last'.log[k - 1] = Ev("_deserialize", last'.log[k].id,
                                   fields'[last'.log[k].id].name)
          /\ last'.log[k].id \in DOMAIN fields => fields[last'.log[k].id].schema = 0
    /\ \A k \in NewEvents("get_class") :
          /\ k > 1
          /\ last'.log[k - 1].e = "resolve"
          /\ fields'[last'.log[k - 1].id].nested.form = "name"
          /\ fields'[last'.log[k - 1].id].nested.name = last'.log[k].s

\* the resolutions of fields given by name, and the name each one looks up
NameResolutions ==
    {k \in NewEvents("resolve") : fields'[last'.log[k].id].nested.form = "name"}
NameOf(k) == fields'[last'.log[k].id].nested.name

\* the resolution logged at position k looked the name up and filled the cache
LookupSucceeded(k) ==
    /\ k < Len(last'.log)
    /\ last'.log[k + 1] = Ev("get_class", 0, NameOf(k))
    /\ fields'[last'.log[k].id].schema # 0

\* C9 as stated: definition and construction look up and construct nothing,
\* resolution happens at the deserialization of a present value, and it
\* succeeds if the name has been registered by then.
C9_ResolvesIfRegistered ==
    [][/\ DefinitionIsLazy
       /\ ResolvedOnUse
       /\ \A k \in NameResolutions :
             HasKey(registry, NameOf(k)) => LookupSucceeded(k)]_vars

\* C9 amended: the same, the resolution succeeding if exactly one class has
\* been registered under the name by then.
C9_ResolvesIfUnambiguous ==
    [][/\ DefinitionIsLazy
       /\ ResolvedOnUse
       /\ \A k \in NameResolutions :
             (HasKey(registry, NameOf(k)) /\ Len(registry[NameOf(k)]) = 1)
             <=> LookupSucceeded(k)]_vars

\* a load has resolved a field given by name to a class that was defined
\* after the class of the instance holding the field
C9_Witness ==
    /\ last.op = "load"
    /\ \E k \in EventsOf("get_class") :
          /\ k > 1
          /\ fields[last.log[k - 1].id].schema # 0
          /\ fields[last.log[k - 1].id].parent.to = "schema"
          /\ schemas[fields[last.log[k - 1].id].schema].cls
             > schemas[fields[last.log[k - 1].id].parent.id].cls

\* the operation that has just run resolved each field at most once, and
\* only a field whose cache was empty; a filled cache is never replaced
CacheIsKept ==
    \A fid \in DOMAIN fields' :
        /\ Cardinality({k \in NewEvents("resolve") : last'.log[k].id = fid}) <= 1
        /\ (fid \in DOMAIN fields /\ fields[fid].schema # 0)
           => /\ fields'[fid].schema = fields[fid].schema
              /\ \A k \in NewEvents("resolve") : last'.log[k].id # fid
        /\ fields'[fid].resolved <= 1
        /\ fields'[fid].resolved = 1 <=> fields'[fid].schema # 0

\* C10: a Nested field resolves its reference successfully at most once;
\* afterwards every access returns the cached child schema instance.
C10_ResolvedAtMostOnce == [][CacheIsKept]_vars

\* a load has deserialized a present value with a Nested field whose cache
\* an earlier load had filled
C10_Witness ==
    /\ last.op = "load"
    /\ \E k \in EventsOf("_deserialize") :
          /\ fields[last.log[k].id].kind = "Nested"
          /\ fields[last.log[k].id].resolved = 1
          /\ \A j \in EventsOf("resolve") : last.log[j].id # last.log[k].id

(***************************************************************************)
(* Specification SpecMeta: class statements with any bases among the       *)
(* classes defined so far, single or multiple, and any fields of their own.*)
(***************************************************************************)
MaxMetaClasses == 5    \* class objects of the class specification, Schema included

ClassNames == <<"Schema", "A", "B", "C", "D", "E", "F">>
MetaNames == {"x", "y"}

\* the bodies: no field, one field, or two fields in either order
MetaBodies ==
    {<<>>} \cup {<<Plain(n, NewField("Field", FALSE, Missing, <<>>))>> : n \in MetaNames}
    \cup {<<Plain(p[1], NewField("Field", FALSE, Missing, <<>>)),
            Plain(p[2], NewField("Field", FALSE, Missing, <<>>))>> :
             p \in {q \in MetaNames \X MetaNames : q[1] # q[2]}}

\* the base lists: one class defined so far, or two distinct ones other than
\* Schema (a second base Schema adds nothing to a subclass of Schema)
BaseLists(n) ==
    {<<ClassNames[a]>> : a \in 1..n}
    \cup {<<ClassNames[p[1]], ClassNames[p[2]]>> :
             p \in {q \in (2..n) \X (2..n) : q[1] # q[2]}}

InitMeta ==
    /\ registry = ImportedRegistry
    /\ classes = ImportedClasses
    /\ fields = <<>>
    /\ schemas = <<>>
    /\ last = NoCall
    /\ threads = <<>>

\* class <next name>(bases): body
DefineSubclass(bases, body) ==
    /\ Len(classes) < MaxMetaClasses
    /\ Update(ClassNew(Heap, [name |-> ClassNames[Len(classes) + 1], module |-> App,
                              bases |-> bases, body |-> body]),
              "define", Len(classes) + 1, VStr(ClassNames[Len(classes) + 1]))

NextMeta == \E bases \in BaseLists(Len(classes)), body \in MetaBodies : DefineSubclass(bases, body)

SpecMeta == InitMeta /\ [][NextMeta]_vars

(***************************************************************************)
(* Properties of the declared-field table, checked under SpecMeta.         *)
(***************************************************************************)
OwnNames(c) == [i \in 1..Len(classes[c].own) |-> classes[c].own[i].name]
TableNames(c) == [i \in 1..Len(classes[c].declared) |-> classes[c].declared[i].name]
Declares(c, n) == \E i \in 1..Len(classes[c].own) : classes[c].own[i].name = n
OwnField(c, n) ==
    classes[c].own[CHOOSE i \in 1..Len(classes[c].own) : classes[c].own[i].name = n].fid

\* the names the classes mro[k], ..., mro[low] declare themselves, from the
\* most distant class to the nearest
RECURSIVE OwnWalk(_, _, _)
OwnWalk(mro, k, low) ==
    IF k < low THEN <<>> ELSE OwnNames(mro[k]) \o OwnWalk(mro, k - 1, low)

\* the names of a sequence, each at the place of its first occurrence
RECURSIVE FirstOccurrences(_, _, _)
FirstOccurrences(names, i, acc) ==
    IF i > Len(names) THEN acc
    ELSE FirstOccurrences(names, i + 1,
                          IF \E j \in 1..Len(acc) : acc[j] = names[i] THEN acc
                          ELSE Append(acc, names[i]))

\* the names inherited by class c, and all its names, in order of first declaration
InheritedNames(c) ==
    FirstOccurrences(OwnWalk(classes[c].mro, Len(classes[c].mro), 2), 1, <<>>)
AllNames(c) ==
    FirstOccurrences(OwnWalk(classes[c].mro, Len(classes[c].mro), 1), 1, <<>>)

\* C11: in the declared-field table of every class each name sits at the
\* position of its first declaration, ancestors walked from the most distant
\* to the nearest and the class's own fields last; an own field of an
\* inherited name replaces the object without moving the key, new own fields
\* follow the inherited ones, and computing the table again gives the same table.
C11_TableInFirstDeclarationOrder ==
    \A c \in 2..Len(classes) :
        /\ TableNames(c) = AllNames(c)
        /\ SubSeq(TableNames(c), 1, Len(InheritedNames(c))) = InheritedNames(c)
        /\ \A i \in 1..Len(classes[c].declared) :
              Declares(c, classes[c].declared[i].name)
              => classes[c].declared[i].fid = OwnField(c, classes[c].declared[i].name)
        /\ classes[c].declared
           = DictOf(InheritedFields(classes, classes[c].mro, Len(classes[c].mro))
                    \o classes[c].own, 1, <<>>)

\* a class with two bases declares a new field and then a field of an
\* inherited name: the inherited name stays first, the new name follows
C11_Witness ==
    \E c \in 2..Len(classes) :
        /\ Len(classes[c].bases) = 2
        /\ Len(classes[c].own) = 2
        /\ InheritedNames(c) = <<classes[c].own[2].name>>
        /\ TableNames(c) = <<classes[c].own[2].name, classes[c].own[1].name>>
        /\ classes[c].declared[1].fid = classes[c].own[2].fid

\* the nearest class of the linearisation of c that declares n itself
Nearest(c, n) ==
    classes[c].mro[CHOOSE k \in 1..Len(classes[c].mro) :
                      /\ Declares(classes[c].mro[k], n)
                      /\ \A j \in 1..(k - 1) : ~Declares(classes[c].mro[j], n)]

\* C12: the field object stored under a name in the declared-field table of a
\* class is the one declared by the nearest class of its linearisation (the
\* class itself, then its ancestors nearest first) that declares the name.
C12_NearestDeclarationWins ==
    \A c \in 2..Len(classes) :
        \A i \in 1..Len(classes[c].declared) :
            classes[c].declared[i].fid
            = OwnField(Nearest(c, classes[c].declared[i].name), classes[c].declared[i].name)

(***************************************************************************)
(* Properties of the field objects of schema instances, checked under Spec.*)
(***************************************************************************)
\* the field object f is a declared or load field of the instance s, or the
\* inner field of a List field of s
Holds(s, f) ==
    \/ \E i \in 1..Len(schemas[s].load_fields) :
          \/ schemas[s].load_fields[i].fid = f
          \/ /\ fields[schemas[s].load_fields[i].fid].kind = "List"
             /\ fields[schemas[s].load_fields[i].fid].inner = f
    \/ \E i \in 1..Len(schemas[s].declared_fields) : schemas[s].declared_fields[i].fid = f

\* the instance a factory returned: only its copy, made next, is kept
FactoryResult(s) ==
    \E f \in DOMAIN fields : fields[f].nested.form = "factory" /\ fields[f].schema = s + 1

\* C13: no field object is held by two distinct schema instances, whether
\* the instances were constructed by the program or resolved by a Nested
\* field given as instance, type, factory or name.
C13_NoSharedFieldObject ==
    \A s1, s2 \in DOMAIN schemas :
        (s1 # s2 /\ ~FactoryResult(s1) /\ ~FactoryResult(s2))
        => \A f \in DOMAIN fields : ~(Holds(s1, f) /\ Holds(s2, f))

(***************************************************************************)
(* Nested fields in every form of reference: the class Item and a class    *)
(* Owner whose one field n refers to Item as an instance, a type, a        *)
(* factory or a name, with the field and the referenced schema many or not.*)
(***************************************************************************)
\* class Item(Schema): name = String(required=True, upper_case=True)
ItemDecl ==
    [name |-> "Item", module |-> App, bases |-> <<"Schema">>,
     body |-> <<Plain("name", [NewField("String", TRUE, Missing, <<>>) EXCEPT
                                  !.upper_case = TRUE])>>]

\* the argument of Nested: Item(many=sm), Item, lambda: Item(many=sm), "Item"
Reference(form, sm) ==
    [form |-> form, name |-> IF form = "name" THEN "Item" ELSE "", ref |-> 0, many |-> sm]

\* class Owner(Schema): n = Nested(<reference>, many=fm)
OwnerDecl(form, fm, sm) ==
    [name |-> "Owner", module |-> App, bases |-> <<"Schema">>,
     body |-> <<FieldDecl("n", [NewField("Nested", FALSE, Missing, <<>>) EXCEPT
                                   !.many = fm, !.nested = Reference(form, sm)],
                          IF form = "name" THEN "" ELSE "Item", NoInner)>>]

\* the references of Owner.n: a type and a name have no many of their own
References ==
    {p \in {"instance", "type", "factory", "name"} \X BOOLEAN :
        p[1] \in {"type", "name"} => ~p[2]}

Named(n) == Obj(<<"name">>, <<VStr(n)>>)

NestedValues ==
    {ListV(<<Named("x"), Named("y")>>), ListV(<<>>), ListV(<<Named("x"), EmptyMap>>),
     Named("x"), EmptyMap, VStr("x"), VInt(7)}

DefineItem ==
    /\ Len(classes) = 1
    /\ Update(ClassNew(Heap, ItemDecl), "define", 2, VStr("Item"))

DefineOwner(form, fm, sm) ==
    /\ Len(classes) = 2
    /\ Within(ClassNew(Heap, OwnerDecl(form, fm, sm)))
    /\ Update(ClassNew(Heap, OwnerDecl(form, fm, sm)), "define", 3, VStr("Owner"))

\* Owner()
ConstructOwner ==
    /\ Len(classes) = 3
    /\ Within(SchemaNew(Heap, 3, FALSE))
    /\ Update(SchemaNew(Heap, 3, FALSE), "construct", 3, VBool(FALSE))

\* owner.load({"n": value})
LoadOwner(sid, value) ==
    /\ schemas[sid].cls = 3
    /\ Within(SchemaLoad(Heap, sid, Obj(<<"n">>, <<value>>), None))
    /\ Update(SchemaLoad(Heap, sid, Obj(<<"n">>, <<value>>), None), "load", sid, value)

NextNested ==
    \/ DefineItem
    \/ \E p \in References, fm \in BOOLEAN : DefineOwner(p[1], fm, p[2])
    \/ ConstructOwner
    \/ \E sid \in 1..Len(schemas), value \in NestedValues : LoadOwner(sid, value)

SpecNested == Init /\ [][NextNested]_vars

\* the field n of the owner loaded last, and the schema it resolved
OwnerField == schemas[last.id].load_fields[1].fid
Resolved == fields[OwnerField].schema
OwnerLoaded == last.op = "load" /\ Resolved # 0

\* the referenced schema is many or the field is configured many
IsMany == schemas[Resolved].many \/ fields[OwnerField].many

\* what one load of the mapping by an Item schema converts it to
Converted(mapping) == SchemaDeserialize(Heap, Resolved, mapping, FALSE)
IsValidMapping(v) == v.t = "map" /\ Converted(v).exc = "none"
AllValid(v) == v.t = "list" /\ \A i \in 1..Len(v.items) : IsValidMapping(v.items[i])
ConvertedAll(v) == ListV([i \in 1..Len(v.items) |-> Converted(v.items[i]).val])

\* C14: for every form of reference, when the referenced schema or the field
\* is many, a list of valid mappings loads to the list of the converted
\* values in input order and any other input fails with a validation error;
\* when neither is many, a valid mapping loads to its converted value.
C14_NestedManyForEveryForm ==
    OwnerLoaded =>
        /\ (IsMany /\ AllValid(last.arg)) =>
              /\ last.exc = "none"
              /\ last.val = Obj(<<"n">>, <<ConvertedAll(last.arg)>>)
        /\ (IsMany /\ last.arg.t # "list") => last.exc = "ValidationError"
        /\ (~IsMany /\ IsValidMapping(last.arg)) =>
              /\ last.exc = "none"
              /\ last.val = Obj(<<"n">>, <<Converted(last.arg).val>>)

(***************************************************************************)
(* Properties of the value Field.deserialize returns, checked under        *)
(* SpecField.                                                              *)
(***************************************************************************)
\* the candidate after a validator returned r: r when it is a value, the
\* candidate itself when r is None or a truth value
Transformed(candidate, r) == IF r.t \in {"none", "bool"} THEN candidate ELSE r

\* the candidate after the validators from position i on
RECURSIVE Candidate(_, _, _)
Candidate(validators, i, candidate) ==
    IF i > Len(validators) THEN candidate
    ELSE Candidate(validators, i + 1,
                   Transformed(candidate, ValidatorReturn(validators[i], candidate)))

PresentAndValid == Deserialized /\ ~IsMissingLike(last.arg) /\ last.exc = "none"

\* C15: for a present value that coerces and validates, deserialize returns
\* the candidate as transformed by the validators of the chain: where a
\* validator returns a transformed value, the output is that value and not
\* the coerced one.
C15_ReturnsTransformedCandidate ==
    PresentAndValid
    => last.val = Candidate(fields[1].validators, 1, Coerce(Heap, 1, last.arg).val)


\* the configured default: what the producer returns when the default is a
\* zero-argument producer, the missing sentinel when none is configured
ConfiguredDefault ==
    IF fields[1].load_default.t = "callable" THEN fields[1].load_default.r
    ELSE fields[1].load_default

OptionalMissing == Deserialized /\ ~fields[1].required /\ IsMissingLike(last.arg)

\* C16: a non-required field given the missing sentinel, the empty string or
\* None returns its configured default, and neither the kind's _deserialize
\* nor any validator has been called.
C16_OptionalMissingReturnsDefault ==
    OptionalMissing
    => /\ last.exc = "none"
       /\ last.val = ConfiguredDefault
       /\ ~Called("_deserialize", 1)
       /\ ~Called("validator", 1)

C16_Witness ==
    /\ OptionalMissing /\ last.arg = VStr("")
    /\ fields[1].load_default = Func(VInt(5)) /\ last.val = VInt(5)
    /\ fields[1].kind = "Integer" /\ Len(fields[1].validators) > 0

(***************************************************************************)
(* Specification SpecThreads: threads call register and get_class on the   *)
(* one registry.  A thread runs one call, one dictionary or list operation *)
(* at a time, and any other thread may run between two of its operations.  *)
(* The classes A of module m1, A of module m2 and a second A of module m1  *)
(* exist; each is registered by at most one thread.                        *)
(***************************************************************************)
MaxThreads == 3

ThreadClasses ==
    ImportedClasses \o <<EmptyClass("A", "m1", 2), EmptyClass("A", "m2", 3),
                         EmptyClass("A", "m1", 4)>>

ThreadLookups == {"A", "m1.A"}

InitThreads ==
    /\ registry = ImportedRegistry
    /\ classes = ThreadClasses
    /\ fields = <<>>
    /\ schemas = <<>>
    /\ last = NoCall
    /\ threads = <<>>

\* a thread about to run op(classname, ...): classes is the local variable
\* of get_class, alias tells whether it still is the list of the registry,
\* detail is the message get_class prints before it raises
Thread(op, classname, cid, pc) ==
    [op |-> op, classname |-> classname, cid |-> cid, pc |-> pc, classes |-> <<>>,
     alias |-> FALSE, exc |-> "none", detail |-> "", val |-> 0]

IsRegistering(cid) ==
    \E t \in DOMAIN threads : threads[t].op = "register" /\ threads[t].cid = cid

StartRegister(cid) ==
    /\ Len(threads) < MaxThreads
    /\ ~IsRegistering(cid)
    /\ threads' = Append(threads, Thread("register", classes[cid].name, cid, "in"))
    /\ UNCHANGED <<registry, classes, fields, schemas, last>>

StartGetClass(classname) ==
    /\ Len(threads) < MaxThreads
    /\ threads' = Append(threads, Thread("get_class", classname, 0, "fetch"))
    /\ UNCHANGED <<registry, classes, fields, schemas, last>>

\* the thread t goes on to pc; the registry is only read
Goto(t, pc) ==
    /\ threads' = [threads EXCEPT ![t].pc = pc]
    /\ UNCHANGED <<registry, classes, fields, schemas, last>>

\* the thread t stores list under key and goes on to pc.  A get_class
\* thread that holds the list of key sees an append to it, and keeps the
\* old list when the entry is replaced by a new one.
Store(t, key, list, replaced, pc) ==
    /\ registry' = SetKey(registry, key, list)
    /\ threads' = [i \in DOMAIN threads |->
                      IF i = t THEN [threads[i] EXCEPT !.pc = pc]
                      ELSE IF threads[i].alias /\ threads[i].classname = key
                      THEN IF replaced THEN [threads[i] EXCEPT !.alias = FALSE]
                           ELSE [threads[i] EXCEPT !.classes = list]
                      ELSE threads[i]]
    /\ UNCHANGED <<classes, fields, schemas, last>>

At(t, op, pc) == threads[t].op = op /\ threads[t].pc = pc
ModuleOf(t) == classes[threads[t].cid].module
PathOf(t) == FullPath(ModuleOf(t), threads[t].classname)

\* classname in _registry
RegisterIn(t) ==
    /\ At(t, "register", "in")
    /\ Goto(t, IF HasKey(registry, threads[t].classname) THEN "any" ELSE "elif")

\* not any(each.__module__ == module for each in _registry[classname])
RegisterAny(t) ==
    /\ At(t, "register", "any")
    /\ Goto(t, IF \E i \in 1..Len(registry[threads[t].classname]) :
                     classes[registry[threads[t].classname][i]].module = ModuleOf(t)
               THEN "elif" ELSE "append")

\* _registry[classname].append(cls)
RegisterAppend(t) ==
    /\ At(t, "register", "append")
    /\ Store(t, threads[t].classname,
             Append(registry[threads[t].classname], threads[t].cid), FALSE, "full")

\* elif classname not in _registry
RegisterElif(t) ==
    /\ At(t, "register", "elif")
    /\ Goto(t, IF HasKey(registry, threads[t].classname) THEN "full" ELSE "create")

\* _registry[classname] = [cls]
RegisterCreate(t) ==
    /\ At(t, "register", "create")
    /\ Store(t, threads[t].classname, <<threads[t].cid>>, TRUE, "full")

\* if fullpath not in _registry
RegisterFullIn(t) ==
    /\ At(t, "register", "full")
    /\ Goto(t, IF HasKey(registry, PathOf(t)) THEN "replace" ELSE "setdefault")

\* _registry.setdefault(fullpath, []).append(cls)
RegisterSetdefault(t) ==
    /\ At(t, "register", "setdefault")
    /\ Store(t, PathOf(t),
             Append(IF HasKey(registry, PathOf(t)) THEN registry[PathOf(t)] ELSE <<>>,
                    threads[t].cid),
             FALSE, "done")

\* _registry[fullpath] = [cls]
RegisterReplace(t) ==
    /\ At(t, "register", "replace")
    /\ Store(t, PathOf(t), <<threads[t].cid>>, TRUE, "done")

\* classes = _registry[classname], or the KeyError handler
GetFetch(t) ==
    /\ At(t, "get_class", "fetch")
    /\ threads' = [threads EXCEPT ![t] =
                      IF HasKey(registry, threads[t].classname)
                      THEN [@ EXCEPT !.pc = "len", !.alias = TRUE,
                                     !.classes = registry[threads[t].classname]]
                      ELSE [@ EXCEPT !.pc = "done", !.exc = "APIException",
                                     !.detail = "Class with name " \o threads[t].classname
                                                \o " was not found"]]
    /\ UNCHANGED <<registry, classes, fields, schemas, last>>

\* if len(classes) > 1
GetLen(t) ==
    /\ At(t, "get_class", "len")
    /\ threads' = [threads EXCEPT ![t] =
                      IF Len(threads[t].classes) > 1
                      THEN [@ EXCEPT !.pc = "done", !.alias = FALSE, !.exc = "APIException",
                                     !.detail = "Multiple classes with name "
                                                \o threads[t].classname \o " were found."]
                      ELSE [@ EXCEPT !.pc = "return", !.alias = FALSE]]
    /\ UNCHANGED <<registry, classes, fields, schemas, last>>

\* return _registry[classname][0]
GetReturn(t) ==
    /\ At(t, "get_class", "return")
    /\ threads' = [threads EXCEPT ![t] =
                      [@ EXCEPT !.pc = "done", !.val = registry[threads[t].classname][1]]]
    /\ UNCHANGED <<registry, classes, fields, schemas, last>>

NextThreads ==
    \/ \E cid \in 2..Len(classes) : StartRegister(cid)
    \/ \E classname \in ThreadLookups : StartGetClass(classname)
    \/ \E t \in DOMAIN threads : RegisterIn(t)
    \/ \E t \in DOMAIN threads : RegisterAny(t)
    \/ \E t \in DOMAIN threads : RegisterAppend(t)
    \/ \E t \in DOMAIN threads : RegisterElif(t)
    \/ \E t \in DOMAIN threads : RegisterCreate(t)
    \/ \E t \in DOMAIN threads : RegisterFullIn(t)
    \/ \E t \in DOMAIN threads : RegisterSetdefault(t)
    \/ \E t \in DOMAIN threads : RegisterReplace(t)
    \/ \E t \in DOMAIN threads : GetFetch(t)
    \/ \E t \in DOMAIN threads : GetLen(t)
    \/ \E t \in DOMAIN threads : GetReturn(t)

SpecThreads == InitThreads /\ [][NextThreads]_vars


(***************************************************************************)
(* Properties of concurrent calls, checked under SpecThreads.              *)
(***************************************************************************)
RegisterThreads == {t \in DOMAIN threads : threads[t].op = "register"}
Finished(t) == threads[t].pc = "done"

\* the registries that the register calls of the threads S, run one after
\* another in any order, make of reg
RECURSIVE SerialResults(_, _)
SerialResults(reg, S) ==
    IF S = {} THEN {reg}
    ELSE UNION {SerialResults(register(reg, classes, threads[t].classname, threads[t].cid),
                              S \ {t}) : t \in S}

\* the registries a call can meet in a serial order of the calls
SerialViews == UNION {SerialResults(ImportedRegistry, S) : S \in SUBSET RegisterThreads}

\* what the caller of get_class observes: the exception, the message
\* printed, the class returned
Observed(r) ==
    <<r.exc, IF r.exc = "none" THEN "" ELSE r.h.log[Len(r.h.log)].s,
      IF r.exc = "none" THEN r.val ELSE 0>>
SerialObservations(classname) ==
    {Observed(get_class([Heap EXCEPT !.registry = v], classname)) : v \in SerialViews}

\* two finished registrations under one simple name from different modules,
\* no other registration under the name coming from either module
Independent(t1, t2) ==
    /\ t1 # t2 /\ Finished(t1) /\ Finished(t2)
    /\ threads[t1].classname = threads[t2].classname
    /\ ModuleOf(t1) # ModuleOf(t2)
    /\ \A t \in RegisterThreads \ {t1, t2} : ModuleOf(t) \notin {ModuleOf(t1), ModuleOf(t2)}

InEntry(t) ==
    \E i \in 1..Len(registry[threads[t].classname]) :
        registry[threads[t].classname][i] = threads[t].cid

\* C17: under any interleaving the calls behave as if serialized: two
\* registrations of distinct classes under one simple name from different
\* modules leave both classes in the entry of the name, the registry left
\* by the finished calls is one that some serial order of them produces,
\* and every get_class observes what it would in some serial order.
C17_BehavesAsIfSerialized ==
    /\ \A t1, t2 \in RegisterThreads : Independent(t1, t2) => InEntry(t1) /\ InEntry(t2)
    /\ (\A t \in DOMAIN threads : Finished(t))
          => registry \in SerialResults(ImportedRegistry, RegisterThreads)
    /\ \A t \in DOMAIN threads :
          (threads[t].op = "get_class" /\ Finished(t))
          => <<threads[t].exc, threads[t].detail, threads[t].val>>
                \in SerialObservations(threads[t].classname)


(***************************************************************************)
(* Properties of repeated loads and of load_fields, checked under Spec.    *)
(***************************************************************************)
Loaded == last.op = "load" /\ last.exc = "none"

\* the same input loaded once more by the instance that loaded it last
LoadAgain == SchemaLoad(Heap, last.id, last.arg, None)

\* the same input loaded by a new instance of the same class
LoadFresh ==
    SchemaLoad(SchemaNew(Heap, schemas[last.id].cls, schemas[last.id].many).h,
               Len(schemas) + 1, last.arg, None)

SameOutput(r) == r.exc = "none" /\ r.val = last.val

\* no simple name or full path of the registry denotes two classes
NoAmbiguousName == \A key \in DOMAIN registry : Len(registry[key]) = 1

RepeatableOnInstance ==
    /\ SameOutput(LoadAgain)
    /\ \A sid \in DOMAIN schemas :
          LoadAgain.h.schemas[sid].load_fields = schemas[sid].load_fields

Keys(pairs) == [i \in 1..Len(pairs) |-> pairs[i].name]

\* C19: in every reachable state the keys of load_fields of every schema
\* instance are the keys of the declared-field table of its class, in the
\* same order.
C19_LoadFieldsKeysAreDeclaredKeys ==
    \A sid \in DOMAIN schemas :
        Keys(schemas[sid].load_fields) = Keys(classes[schemas[sid].cls].declared)

\* an instance of Sub, which inherits title and child, overrides count and
\* adds tags, has performed a load
C19_Witness ==
    /\ last.op = "load"
    /\ classes[schemas[last.id].cls].name = "Sub"
    /\ Keys(schemas[last.id].load_fields) = <<"title", "child", "count", "tags">>


(***************************************************************************)
(* Properties of Field._bind_to_schema, checked under SpecField.           *)
(***************************************************************************)
IsBound(f) == RefSet(f.parent)
Binding(f) == <<f.name, f.parent, f.root>>

\* the non-field object reached from the field by following parent links
RECURSIVE Ancestor(_, _)
Ancestor(fs, fid) ==
    IF fs[fid].parent.to = "field" THEN Ancestor(fs, fs[fid].parent.id) ELSE fs[fid].parent

\* a further bind call leaves the binding of the field, and of the inner
\* field of a List, as the first call made it
BindKeepsBinding ==
    (last'.op = "bind" /\ IsBound(fields[1]))
    => /\ Binding(fields'[1]) = Binding(fields[1])
       /\ fields[1].kind = "List"
             => Binding(fields'[fields'[1].inner]) = Binding(fields[fields[1].inner])

RootIsAncestor ==
    \A fid \in DOMAIN fields : IsBound(fields[fid]) => fields[fid].root = Ancestor(fields, fid)

\* C20: binding is assign-once: once a field is bound, a further bind call
\* with a different name or owner leaves its name, parent and root (and
\* those of a List's inner field) unchanged, and the root of a bound field
\* is the non-field object reached by following its parent links.
C20_BindingIsAssignOnce == [][BindKeepsBinding]_vars /\ []RootIsAncestor

\* a List field bound as f to the first instance has been bound again as g
\* to the second
C20_Witness ==
    /\ last.op = "bind" /\ last.arg = ListV(<<VStr("g"), VInt(2)>>)
    /\ fields[1].kind = "List"
    /\ Binding(fields[1]) = <<"f", SchemaRef(1), SchemaRef(1)>>
    /\ Binding(fields[fields[1].inner]) = <<"f", FieldRef(1), SchemaRef(1)>>


(***************************************************************************)
(* Properties of the validator chain, checked under SpecField.             *)
(***************************************************************************)
\* the value was present and the kind's _deserialize accepted it
Coerced == Deserialized /\ Called("_deserialize", 1) /\ Coerce(Heap, 1, last.arg).exc = "none"

\* the positions of the validators invoked by the last call, in order
Invoked == SelectSeq(last.log, LAMBDA e : e.e = "validator")
InvokedPositions == [k \in 1..Len(Invoked) |-> Invoked[k].s]

\* the validators of the chain that reject the coerced value
Failing ==
    {i \in 1..Len(fields[1].validators) :
        ValidatorOutcome(fields[1].validators[i], Coerce(Heap, 1, last.arg).val) # "pass"}
FirstFailingValidator == CHOOSE i \in Failing : \A j \in Failing : i <= j

\* the validators that must have run: all of them, or those up to the first
\* failing one
Expected == IF Failing = {} THEN Len(fields[1].validators) ELSE FirstFailingValidator

ManyArguments == {None, VBool(TRUE), VBool(FALSE), VInt(1)}

ManyData ==
    {ListV(<<Named("x"), Named("y")>>), ListV(<<>>),
     ListV(<<Named("x"), EmptyMap, VStr("z")>>), ListV(<<VInt(7), EmptyMap>>),
     Named("x"), EmptyMap, VStr("x"), VInt(7)}

\* Item(many=many)
ConstructItem(many) ==
    /\ Len(classes) = 2
    /\ Within(SchemaNew(Heap, 2, many))
    /\ Update(SchemaNew(Heap, 2, many), "construct", 2, VBool(many))

\* item.load(data, many=many)
LoadItem(sid, data, many) ==
    Update(SchemaLoad(Heap, sid, data, many), "load", sid,
           Obj(<<"data", "many">>, <<data, many>>))

NextMany ==
    \/ DefineItem
    \/ \E many \in BOOLEAN : ConstructItem(many)
    \/ \E sid \in 1..Len(schemas), data \in ManyData, many \in ManyArguments :
          LoadItem(sid, data, many)

SpecMany == Init /\ [][NextMany]_vars

\* the arguments of the last load, and the many it must work with
LoadedData == last.arg.vals[1]
ManyArgument == last.arg.vals[2]
EffectiveMany ==
    IF ManyArgument = None THEN schemas[last.id].many ELSE Truthy(ManyArgument)

\* the outcome of the non-many path for one element
ElementOutcome(i) == SchemaDeserialize(Heap, last.id, LoadedData.items[i], FALSE)
FailingElements == {i \in 1..Len(LoadedData.items) : ElementOutcome(i).exc # "none"}
FirstFailingElement == CHOOSE i \in FailingElements : \A j \in FailingElements : i <= j

ManyOutcome ==
    IF LoadedData.t # "list" THEN last.exc = "ValidationError"
    ELSE IF FailingElements = {}
    THEN /\ last.exc = "none"
         /\ last.val = ListV([i \in 1..Len(LoadedData.items) |-> ElementOutcome(i).val])
    ELSE /\ last.exc = ElementOutcome(FirstFailingElement).exc
         /\ last.detail = ElementOutcome(FirstFailingElement).detail

LoadOutcome ==
    last.op = "load"
    => IF EffectiveMany THEN ManyOutcome
       ELSE /\ LoadedData.t # "map" => last.exc = "ValidationError"
            /\ LoadedData.t = "map"
                  => /\ last.exc = SchemaDeserialize(Heap, last.id, LoadedData, FALSE).exc
                     /\ last.val = SchemaDeserialize(Heap, last.id, LoadedData, FALSE).val

ManyIsKept ==
    \A sid \in DOMAIN schemas : schemas'[sid].many = schemas[sid].many

\* C22: load works with the many argument when it is given and with the
\* instance's many otherwise.  With many it fails with a validation error
\* unless the data is a list, and else returns the results of the non-many
\* path for the elements, in order, or the failure of the first failing
\* element; without many it fails with a validation error unless the data
\* is a mapping.  No call changes the many of an instance.
C22_ManyFromArgumentOrInstance == []LoadOutcome /\ [][ManyIsKept]_vars

\* an instance that is not many loads a list with many=True and fails at
\* the second of three elements
C22_Witness ==
    /\ last.op = "load" /\ ~schemas[last.id].many /\ ManyArgument = VBool(TRUE)
    /\ LoadedData = ListV(<<Named("x"), EmptyMap, VStr("z")>>)
    /\ FailingElements = {2, 3} /\ last.exc = "ParseError"

(***************************************************************************)
(* The output of a successful non-many load, checked under Spec.           *)
(***************************************************************************)
SuccessfulNonManyLoad == NonManyLoad /\ last.exc = "none"

OutputKeys == {last.val.k[j] : j \in 1..Len(last.val.k)}
InputKeys == {last.arg.k[j] : j \in 1..Len(last.arg.k)}
LoadFieldNames == {TopFields[i].name : i \in 1..Len(TopFields)}

\* the load field at position i contributes its result under its name, or
\* nothing when its result is the missing sentinel
Contributes(i) ==
    IF FieldOutcome(i).val # Missing
    THEN /\ TopFields[i].name \in OutputKeys
         /\ MapGet(last.val, TopFields[i].name, Missing) = FieldOutcome(i).val
    ELSE TopFields[i].name \notin OutputKeys

\* C23: the output of a successful non-many load has key f exactly when f is
\* a load field whose deserialize result is not the missing sentinel, with
\* that result as its value; input keys that are not declared fields never
\* appear in the output.
C23_OutputIsTheNonMissingResults ==
    SuccessfulNonManyLoad
    => /\ last.val.t = "map"
       /\ Cardinality(OutputKeys) = Len(last.val.k)
       /\ \A i \in 1..Len(TopFields) : Contributes(i)
       /\ OutputKeys \subseteq LoadFieldNames
       /\ (InputKeys \ LoadFieldNames) \cap OutputKeys = {}

\* a load succeeded on an input with an undeclared key, with one load field
\* contributing a value and another one resulting in the missing sentinel
C23_Witness ==
    /\ SuccessfulNonManyLoad
    /\ InputKeys \ LoadFieldNames # {}
    /\ \E i \in 1..Len(TopFields) : FieldOutcome(i).val # Missing
    /\ \E i \in 1..Len(TopFields) : FieldOutcome(i).val = Missing

(***************************************************************************)
(* The declared-field tables of the schema classes, checked under Spec.    *)
(***************************************************************************)
\* the template field objects of class c: the fields of its table and the
\* inner fields of the List fields among them
TableFields(c) == {classes[c].declared[i].fid : i \in 1..Len(classes[c].declared)}
Templates(c) ==
    TableFields(c) \cup {fields[fid].inner : fid \in {g \in TableFields(c) : fields[g].kind = "List"}}

\* a step leaves the table of every class as it was: the same keys in the
\* same order with the same field objects, each List template with the same
\* inner field object
TablesAreKept ==
    \A c \in 1..Len(classes) :
        /\ classes'[c].declared = classes[c].declared
        /\ \A fid \in TableFields(c) : fields'[fid].inner = fields[fid].inner

\* no template field is bound, and no Nested template has resolved its schema
TemplatesAreUnbound ==
    \A c \in 1..Len(classes) : \A fid \in Templates(c) :
        /\ fields[fid].name = ""
        /\ fields[fid].parent = NoRef
        /\ fields[fid].root = NoRef
        /\ fields[fid].kind = "Nested" => fields[fid].schema = 0

\* C24: constructing schema instances and loading with them leaves the
\* declared-field table of every schema class unchanged (same keys, same
\* order, same template field objects), and every template field keeps name,
\* parent and root unset and, for a Nested template, an empty cache.
C24_TemplatesAreNeverTouched == [][TablesAreKept]_vars /\ []TemplatesAreUnbound

\* an instance has loaded, and its own copy of a Nested template of its class
\* has cached the child schema it resolved
C24_Witness ==
    /\ last.op = "load" /\ last.exc = "none"
    /\ \E i \in 1..Len(TopFields) :
          /\ fields[TopFields[i].fid].kind = "Nested"
          /\ fields[TopFields[i].fid].schema # 0
          /\ fields[classes[schemas[last.id].cls].declared[i].fid].kind = "Nested"
          /\ TopFields[i].fid # classes[schemas[last.id].cls].declared[i].fid

(***************************************************************************)
(* Redefinition of a class in its module, checked under SpecRegistry.      *)
(***************************************************************************)
\* the last call registered a new class under its own name, a class of the
\* same name and module exists already, and no other module uses the name
Redefinition ==
    /\ last.op = "register"
    /\ classes[last.id].name = last.arg.s
    /\ \E cid \in 2..Len(classes) :
          /\ cid < last.id
          /\ classes[cid].name = last.arg.s
          /\ classes[cid].module = classes[last.id].module
    /\ \A cid \in 2..Len(classes) :
          classes[cid].name = last.arg.s => classes[cid].module = classes[last.id].module
    /\ \A i \in 1..Len(registry[last.arg.s]) :
          classes[registry[last.arg.s][i]].module = classes[last.id].module

\* C25: after a class is registered again under the same simple name from
\* the same module, the simple name resolves to the same class as the full
\* path: the newest definition.
C25_SimpleNameFollowsRedefinition ==
    Redefinition
    => /\ get_class(Heap, FullKey(last.id, last.arg.s)).val = last.id
       /\ get_class(Heap, last.arg.s).exc = "none"
       /\ get_class(Heap, last.arg.s).val = last.id

(***************************************************************************)
(* The shape of the registry, checked under SpecRegistry.                  *)
(***************************************************************************)
\* a full-path entry holds one class; a simple-name entry holds at least one
\* class and no two classes of one module
EntriesAreWellFormed ==
    \A key \in DOMAIN registry :
        IF IsFullPath(key) THEN Len(registry[key]) = 1
        ELSE /\ Len(registry[key]) >= 1
             /\ \A i, j \in 1..Len(registry[key]) :
                   i # j => classes[registry[key][i]].module # classes[registry[key][j]].module

\* a step removes no key, shortens no simple-name entry and ends no ambiguity
EntriesOnlyGrow ==
    /\ DOMAIN registry \subseteq DOMAIN registry'
    /\ \A key \in DOMAIN registry :
          ~IsFullPath(key) => Len(registry'[key]) >= Len(registry[key])
    /\ \A name \in RegistryNames : Ambiguous(name) => Ambiguous(name)'

IsCached(s) == \E f \in DOMAIN fields : fields[f].kind = "Nested" /\ fields[f].schema = s

\* the instance s has performed the last load, or is a cached child schema
PerformsLoad(s) == (last.op = "load" /\ last.id = s) \/ IsCached(s)

\* the load field f of s is bound to s, and the inner field of a List field
\* to the List field
BoundTo(s, f) ==
    /\ fields[f].parent = SchemaRef(s)
    /\ fields[f].root = SchemaRef(s)
    /\ fields[f].kind = "List"
          => /\ fields[fields[f].inner].parent = FieldRef(f)
             /\ fields[fields[f].inner].root = SchemaRef(s)

\* C27: every field among the load fields of a schema instance that performs
\* a load (a top-level instance, or the child schema in the cache of a Nested
\* field of any reference form) has that instance as parent and root, and the
\* inner field of a List field has the List field as parent and the instance
\* as root.
C27_LoadFieldsBelongToTheInstance ==
    \A s \in DOMAIN schemas :
        PerformsLoad(s)
        => \A i \in 1..Len(schemas[s].load_fields) : BoundTo(s, schemas[s].load_fields[i].fid)
====
